---- MODULE Spec2Model ----
(***************************************************************************)
(* The OAuth 2.0 authorization-code flow coordinator of the Flowise        *)
(* server: the callback route (routes/oauth/index.ts), the provider        *)
(* descriptors (oauth/GmailProvider.ts, oauth/GoogleCalendarProvider.ts),  *)
(* the provider registry (utils/OAuthProviderRegistry.ts) and the          *)
(* credential helpers (utils/oauthUtils.ts).                               *)
(***************************************************************************)
EXTENDS Integers, Sequences, FiniteSets, TLC

\* JavaScript's undefined, as a field value.
Undefined == "undefined"

\* The requests that may be in the server at one time.
Reqs == {"r1", "r2"}

\* A cap on the number of credential records the callbacks may create.
MaxCreated == 1

(***************************************************************************)
(* Provider descriptors and the registry.                                  *)
(***************************************************************************)
gmailProvider ==
    [providerKey |-> "gmail", displayName |-> "Gmail", credentialType |-> "gmailOAuth"]

googleCalendarProvider ==
    [providerKey |-> "calendar", displayName |-> "Google Calendar",
     credentialType |-> "googleCalendarOAuth"]

NoProvider ==
    [providerKey |-> Undefined, displayName |-> Undefined, credentialType |-> Undefined]

registerProviderWrongKey(map, provider) ==
    [k \in (DOMAIN map) \cup {provider.displayName} |->
        IF k = provider.displayName THEN provider ELSE map[k]]

registerProviderKeepFirst(map, provider) ==
    [k \in (DOMAIN map) \cup {provider.providerKey} |->
        IF k \in DOMAIN map THEN map[k] ELSE provider]

\* Map.set(provider.providerKey, provider)
registerProvider(map, provider) ==
    [k \in (DOMAIN map) \cup {provider.providerKey} |->
        IF k = provider.providerKey THEN provider ELSE map[k]]

EmptyMap == [k \in {} |-> NoProvider]

registerOAuthProvidersMut == registerProvider(EmptyMap, gmailProvider)

\* registerOAuthProviders(): gmail, then calendar.
registerOAuthProviders == registerProvider(registerProvider(EmptyMap, gmailProvider), googleCalendarProvider)

hasProviderMut(map, key) == TRUE

hasProvider(map, key) == key \in DOMAIN map

getProviderMut(map, key) ==
    IF key \in DOMAIN map
        THEN [thrown |-> FALSE, provider |-> map[key]]
        ELSE [thrown |-> FALSE, provider |-> gmailProvider]

\* getProvider throws NOT_FOUND for an unregistered key: "thrown" tells it.
getProvider(map, key) ==
    IF key \in DOMAIN map
        THEN [thrown |-> FALSE, provider |-> map[key]]
        ELSE [thrown |-> TRUE, provider |-> NoProvider]

\* Array.from(this.providers.values()): one descriptor per key
getAllProviders(map) == { map[k] : k \in DOMAIN map }

\* An array of descriptors: live when it is the registry's own collection
\* (what is done to it is done to the registry), seen is what its holder
\* saw in it and did to it.
Array(taken, live, items) == [taken |-> taken, live |-> live, items |-> items, seen |-> items]

NoArray == Array(FALSE, FALSE, {})

ArrayFromMut(map) == Array(TRUE, TRUE, getAllProviders(map))

\* Array.from(...): a new array with the descriptors the map holds now
ArrayFrom(map) == Array(TRUE, FALSE, getAllProviders(map))

\* What iterating the array gives.
Items(array, map) == IF array.live THEN getAllProviders(map) ELSE array.items

getInstanceMut(instance) == instance + 1

\* getInstance(): the static instance, constructed by the first call.
\* Instances are numbered in the order of their construction; 0 is none.
getInstance(instance) == IF instance = 0 THEN 1 ELSE instance

(***************************************************************************)
(* The state token codec.  A JSON text is a sequence of tokens; a token is *)
(* a number 0..15 (one "byte" of the text).  The base64 of this model maps *)
(* one byte to two characters of a four-letter alphabet, so that encoding  *)
(* and decoding are real conversions.                                      *)
(***************************************************************************)
Tok(k, f, v) == [k |-> k, f |-> f, v |-> v]

TokenTable ==
    << Tok("lbrace", "", ""),                        \* byte 0
       Tok("rbrace", "", ""),                        \* byte 1
       Tok("null", "", ""),                          \* byte 2
       Tok("num", "", ""),                           \* byte 3
       Tok("member", "nodeId", "n1"),                \* byte 4
       Tok("member", "credentialId", "new"),         \* byte 5
       Tok("member", "credentialId", "c1"),          \* byte 6
       Tok("member", "credentialId", "c2"),          \* byte 7
       Tok("member", "providerKey", "gmail"),        \* byte 8
       Tok("member", "providerKey", "calendar"),     \* byte 9
       Tok("member", "providerKey", "slack"),        \* byte 10
       Tok("member", "credentialData", "seedA"),     \* byte 11
       Tok("member", "credentialData", "seedB"),     \* byte 12
       Tok("junk", "", ""),                          \* byte 13
       Tok("member", "credentialData", "seedBlank"), \* byte 14
       Tok("member", "credentialData", "seedPartial") >> \* byte 15

Bytes == 0..15
TokenOf(b) == TokenTable[b + 1]
ByteOf(f, v) == CHOOSE b \in Bytes : TokenOf(b) = Tok("member", f, v)

\* The credential seeds a state may embed.
SeedFields(s) ==
    CASE s = "seedA" -> [clientId |-> "idA", clientSecret |-> "secretA", redirectUri |-> "uriA"]
      [] s = "seedB" -> [clientId |-> "idB", clientSecret |-> "secretB", redirectUri |-> "uriB"]
      [] s = "seedBlank" -> [clientId |-> " ", clientSecret |-> "secretA", redirectUri |-> "uriA"]
      [] s = "seedPartial" -> [clientId |-> "idP", clientSecret |-> "", redirectUri |-> Undefined]
      [] OTHER -> [clientId |-> Undefined, clientSecret |-> Undefined, redirectUri |-> Undefined]

\* A decoded JSON value.  t is "object", "null", "number" or "SyntaxError".
JsonValue(t, nodeId, credentialId, providerKey, credentialData) ==
    [t |-> t, nodeId |-> nodeId, credentialId |-> credentialId,
     providerKey |-> providerKey, credentialData |-> credentialData]

NoStateData == JsonValue("none", Undefined, Undefined, Undefined, Undefined)

StateFields == <<"nodeId", "credentialId", "providerKey", "credentialData">>

\* JSON.stringify of a state object: members in insertion order, an
\* undefined member is left out.
RECURSIVE StringifyMembers(_, _)
StringifyMembers(obj, i) ==
    IF i > Len(StateFields) THEN << >>
    ELSE LET f == StateFields[i]
         IN  (IF obj[f] = Undefined THEN << >> ELSE << ByteOf(f, obj[f]) >>)
             \o StringifyMembers(obj, i + 1)

JSONstringifyMut(obj) == <<0>> \o StringifyMembers(obj, 2) \o <<1>>

\* JSON.stringify: { members }
JSONstringify(obj) == <<0>> \o StringifyMembers(obj, 1) \o <<1>>

\* The value of member f in a member list: the last one wins.
RECURSIVE MemberValue(_, _, _)
MemberValue(text, f, i) ==
    IF i = 0 THEN Undefined
    ELSE IF TokenOf(text[i]).k = "member" /\ TokenOf(text[i]).f = f
            THEN TokenOf(text[i]).v
            ELSE MemberValue(text, f, i - 1)

\* JSON.parse: null, a number, or { members }; anything else is a
\* SyntaxError.
JSONparse(text) ==
    IF Len(text) = 1 /\ TokenOf(text[1]).k = "null"
        THEN JsonValue("null", Undefined, Undefined, Undefined, Undefined)
    ELSE IF Len(text) = 1 /\ TokenOf(text[1]).k = "num"
        THEN JsonValue("number", Undefined, Undefined, Undefined, Undefined)
    ELSE IF /\ Len(text) >= 2
            /\ TokenOf(text[1]).k = "lbrace"
            /\ TokenOf(text[Len(text)]).k = "rbrace"
            /\ \A i \in 2..(Len(text) - 1) : TokenOf(text[i]).k = "member"
        THEN JsonValue("object",
                       MemberValue(text, "nodeId", Len(text)),
                       MemberValue(text, "credentialId", Len(text)),
                       MemberValue(text, "providerKey", Len(text)),
                       MemberValue(text, "credentialData", Len(text)))
    ELSE JsonValue("SyntaxError", Undefined, Undefined, Undefined, Undefined)

\* The base64 alphabet of the model, and a character outside it.
B64Alphabet == <<"A", "B", "C", "D">>
B64Index(c) == CHOOSE i \in 0..3 : B64Alphabet[i + 1] = c
IsB64(c) == \E i \in 1..4 : B64Alphabet[i] = c

\* Buffer.from(bytes).toString('base64')
RECURSIVE ToBase64(_)
ToBase64(bytes) ==
    IF bytes = << >> THEN << >>
    ELSE << B64Alphabet[(Head(bytes) \div 4) + 1], B64Alphabet[(Head(bytes) % 4) + 1] >>
         \o ToBase64(Tail(bytes))

\* Buffer.from(s, 'base64') does not throw: characters outside the alphabet
\* are skipped and an incomplete trailing group is dropped.
RECURSIVE SkipInvalid(_)
SkipInvalid(s) ==
    IF s = << >> THEN << >>
    ELSE (IF IsB64(Head(s)) THEN << Head(s) >> ELSE << >>) \o SkipInvalid(Tail(s))

RECURSIVE DecodeGroups(_)
DecodeGroups(s) ==
    IF Len(s) < 2 THEN << >>
    ELSE << 4 * B64Index(s[1]) + B64Index(s[2]) >> \o DecodeGroups(Tail(Tail(s)))

FromBase64(s) == DecodeGroups(SkipInvalid(s))

\* A string is base64 when all its characters are in the alphabet and it is
\* made of whole groups.
IsBase64(s) == (\A i \in 1..Len(s) : IsB64(s[i])) /\ Len(s) % 2 = 0

\* routes/oauth/index.ts line 86: JSON.parse(Buffer.from(state, 'base64').toString())
DecodeState(s) == CHOOSE v \in { JSONparse(text) : text \in {FromBase64(s)} } : TRUE

\* Provider line 55 (startOAuth)
EncodeState(obj) == ToBase64(JSONstringify(obj))

(***************************************************************************)
(* JavaScript objects are functions from field names to values.            *)
(***************************************************************************)
EmptyObj == [k \in {} |-> Undefined]

Get(obj, k) == IF k \in DOMAIN obj THEN obj[k] ELSE Undefined

\* !x for the strings of the model
Falsy(x) == x \in {Undefined, ""}

\* { ...old, ...new }
Spread(old, new) ==
    [k \in (DOMAIN old) \cup (DOMAIN new) |-> IF k \in DOMAIN new THEN new[k] ELSE old[k]]

(***************************************************************************)
(* The credential store (services/credentials), behind its contract:       *)
(* load(id), create(type, fields), update(id, fields).                     *)
(***************************************************************************)
ExistingIds == {"c1"}

StoredRecord(credentialName, name, data) ==
    [credentialName |-> credentialName, name |-> name, data |-> data]

\* update(id, fields): the fields given replace the record's, the others stay.
StoreUpdate(st, id, fields) ==
    IF id \in DOMAIN st
        THEN [st EXCEPT ![id] = StoredRecord(@.credentialName, @.name, Spread(@.data, fields))]
        ELSE st

\* create(type, fields): a record is added under a new id.
StoreCreate(cr, credentialName, name, fields) ==
    Append(cr, StoredRecord(credentialName, name, fields))

\* The records the server may start with: c1 never authenticated, or c1
\* authenticated by an earlier flow.
UnauthenticatedData ==
    [clientId |-> "idC", clientSecret |-> "secretC", redirectUri |-> "uriC",
     authStatus |-> "notAuthenticated"]

AuthenticatedData ==
    [clientId |-> "idC", clientSecret |-> "secretC", redirectUri |-> "uriC",
     accessToken |-> "at0", refreshToken |-> "rt0", tokenExpiry |-> "exp0",
     authStatus |-> "authenticated"]

InitialStores ==
    { [id \in ExistingIds |-> StoredRecord("gmailOAuth", "My Gmail", d)] :
        d \in {UnauthenticatedData, AuthenticatedData} }

(***************************************************************************)
(* utils/oauthUtils.ts                                                     *)
(***************************************************************************)
\* getCredentialData resolves to the record's data, or to {} when the load
\* fails or finds nothing; "new" is answered without a load.
getCredentialData(loaded) ==
    IF loaded.found THEN loaded.data ELSE EmptyObj

getCredentialParamMut(paramName, credentialData, inputs, options) ==
    IF "credentialData" \in DOMAIN options /\ ~Falsy(Get(options["credentialData"], paramName))
        THEN options["credentialData"][paramName]
    ELSE IF ~Falsy(Get(credentialData, paramName))
        THEN credentialData[paramName]
    ELSE IF ~Falsy(Get(inputs, paramName))
        THEN inputs[paramName]
    ELSE ""

\* getCredentialParam: options.credentialData, then nodeData.inputs, then
\* the stored credential; '' when none has a value.
getCredentialParam(paramName, credentialData, inputs, options) ==
    IF "credentialData" \in DOMAIN options /\ ~Falsy(Get(options["credentialData"], paramName))
        THEN options["credentialData"][paramName]
    ELSE IF ~Falsy(Get(inputs, paramName))
        THEN inputs[paramName]
    ELSE IF ~Falsy(Get(credentialData, paramName))
        THEN credentialData[paramName]
    ELSE ""

\* GmailAPI.ts 126: const isAuthenticated = accessToken && refreshToken,
\* each read with getCredentialParam from the stored credential
isAuthenticated(credentialData) ==
    /\ ~Falsy(getCredentialParam("accessToken", credentialData, EmptyObj, EmptyObj))
    /\ ~Falsy(getCredentialParam("refreshToken", credentialData, EmptyObj, EmptyObj))

ClientCfg(clientId, clientSecret, redirectUri) ==
    [clientId |-> clientId, clientSecret |-> clientSecret, redirectUri |-> redirectUri]

NoClientCfg == ClientCfg(Undefined, Undefined, Undefined)

(***************************************************************************)
(* What the identity provider may answer to the code-for-token exchange.   *)
(***************************************************************************)
TokenReplies ==
    { [access_token |-> "at1", refresh_token |-> "rt1", expiry_date |-> "exp1"],
      [access_token |-> "at2", refresh_token |-> Undefined, expiry_date |-> "exp2"] }

NoTokens == [access_token |-> Undefined, refresh_token |-> Undefined, expiry_date |-> Undefined]

\* The TokenResult of handleOAuthCallback.
TokenResult(authenticated, accessToken, refreshToken, tokenExpiry, error) ==
    [authenticated |-> authenticated, accessToken |-> accessToken,
     refreshToken |-> refreshToken, tokenExpiry |-> tokenExpiry, error |-> error,
     returned |-> TRUE]

NoResult ==
    [authenticated |-> FALSE, accessToken |-> Undefined, refreshToken |-> Undefined,
     tokenExpiry |-> Undefined, error |-> Undefined, returned |-> FALSE]

\* GmailProvider.ts 126-133, GoogleCalendarProvider.ts 133-140
SuccessResult(tokens) ==
    TokenResult(TRUE, tokens.access_token, tokens.refresh_token, tokens.expiry_date, Undefined)

\* GmailProvider.ts 142-146, GoogleCalendarProvider.ts 149-153
FailureResult(provider) ==
    TokenResult(FALSE, Undefined, Undefined, Undefined,
                IF provider.providerKey = "gmail"
                    THEN "Authentication failed: Unable to access Gmail with provided credentials"
                    ELSE "Authentication failed: Unable to access Google Calendar with provided credentials")

(***************************************************************************)
(* The pages of the callback route.                                        *)
(***************************************************************************)
Page(status, page, msg, detail) ==
    [status |-> status, page |-> page, msg |-> msg, detail |-> detail]

MissingParametersPage == Page(400, "failure", "Missing required parameters.", "")
InvalidStatePage == Page(400, "failure", "Invalid state parameter.", "")
ProviderNotFoundPage(key) == Page(404, "failure", "OAuth provider not found: ", key)
CredentialNotFoundPage == Page(404, "failure", "Credential not found.", "")
SuccessPage(provider) == Page(200, "success", "account has been successfully connected", provider.displayName)
AuthFailedPage(res) ==
    Page(400, "failure", "Error: ", IF Falsy(res.error) THEN "Unknown error" ELSE res.error)
InnerErrorPage(message) == Page(500, "failure", "Error: ", message)
UnexpectedErrorPage == Page(500, "failure", "An unexpected error occurred.", "")

\* The messages of the errors the handler may catch.
MissingSeedMessage == "Missing credential data for new OAuth credential"
StoreErrorMessage == "credential store failure"

(***************************************************************************)
(* The requests a browser may send to GET /oauth/callback/:provider.       *)
(***************************************************************************)
StateObject(nodeId, credentialId, providerKey, credentialData) ==
    JsonValue("object", nodeId, credentialId, providerKey, credentialData)

StateObjects ==
    { StateObject("n1", "new", "gmail", "seedA"),
      StateObject("n1", "new", "calendar", "seedB"),
      StateObject(Undefined, "new", "gmail", "seedA"),
      StateObject("n1", "new", "gmail", Undefined),
      StateObject("n1", "new", Undefined, "seedA"),
      StateObject("n1", "c1", "gmail", Undefined),
      StateObject("n1", "c1", "calendar", Undefined),
      StateObject("n1", "c1", Undefined, Undefined),
      StateObject("n1", "c1", "slack", Undefined),
      StateObject("n1", "c1", "gmail", "seedA"),
      StateObject("n1", "c2", "gmail", Undefined),
      StateObject("n1", Undefined, "gmail", Undefined) }

\* Strings that are the base64 of a text that is not a state object.
NonStateTexts == { <<2>>, <<3>>, <<0, 6>>, <<13>>, <<6, 8>> }

\* Strings that are not base64: a character outside the alphabet, or an
\* incomplete group.
NotBase64Strings ==
    { <<"!", "!">>,
      <<"!">> \o ToBase64(<<0, 6>>),
      <<"!">> \o EncodeState(StateObject("n1", "c1", "gmail", Undefined)),
      EncodeState(StateObject("n1", "new", "gmail", "seedA")) \o <<"A">> }

WireStates ==
    { EncodeState(o) : o \in StateObjects } \cup { ToBase64(t) : t \in NonStateTexts }
        \cup NotBase64Strings

\* A query parameter may be missing, empty or given.
QueryStates ==
    { [given |-> FALSE, s |-> << >>], [given |-> TRUE, s |-> << >>] }
        \cup { [given |-> TRUE, s |-> w] : w \in WireStates }

Codes == {Undefined, "", "code1"}

PathProviders == {"gmail", "calendar", "slack"}

NoQuery == [code |-> Undefined, state |-> [given |-> FALSE, s |-> << >>]]

EmptySnapshot == [store |-> EmptyObj, created |-> << >>]

\* index.ts 200-205: the handler's local "credential".  It is null until the
\* load returns (NotLoaded) and null again when the load found no record
\* (NoRecord); the two are told apart to know that the load has returned.
NotLoaded == [loaded |-> FALSE, found |-> FALSE, data |-> EmptyObj]
NoRecord == [loaded |-> TRUE, found |-> FALSE, data |-> EmptyObj]
Loaded(record) == [loaded |-> TRUE, found |-> TRUE, data |-> record.data]

\* credentialsService.getCredentialById(id), when it returns
getCredentialById(st, id) == IF id \in DOMAIN st THEN Loaded(st[id]) ELSE NoRecord

(***************************************************************************)
(* State.                                                                  *)
(***************************************************************************)
VARIABLES
    providers,      \* OAuthProviderRegistry.providers
    store,          \* the credential records that exist, by id
    created,        \* the credential records created by callbacks
    credential,     \* what the handler's load of the named record returned
    pc,             \* where each request's handler is
    query,          \* req.query: code, state
    params,         \* req.params.provider
    stateData,      \* the decoded state
    oauthProvider,  \* the descriptor resolved for the request
    options,        \* the options handed to handleOAuthCallback
    clientCfg,      \* clientId, clientSecret, redirectUri of the OAuth2Client
    tokens,         \* the tokens returned by the exchange
    result,         \* the TokenResult
    writeError,     \* the store write of the request threw
    hung,           \* the provider endpoint awaited will never reply
    providerError,  \* the error the provider's catch block caught
    responses,      \* the responses sent for the request
    calls,          \* the outbound calls the request issued, in order
    stages,         \* the states of the callback state machine reached
    pre,            \* the store as it was when the request arrived
    pending,        \* the outbound calls of the request that have not settled
    connected       \* the browser still holds the request's connection

\* POST /oauth/start/:provider
VARIABLES
    startPc,        \* where each start request's handler is
    startReq,       \* req.params.provider and req.body
    startCred,      \* what getCredentialData resolved to in startOAuth
    startCfg,       \* clientId, clientSecret, redirectUri resolved by startOAuth
    startData,      \* the stateData built by startOAuth
    startCalls,     \* the calls the start request issued, in order
    startResponses  \* the responses sent for the start request

startVars ==
    << startPc, startReq, startCred, startCfg, startData, startCalls, startResponses >>

\* The registry singleton and the evaluation of the route modules
VARIABLES
    bootPc,         \* the next step of the evaluation of routes/oauth/index.ts
    instances,      \* how many OAuthProviderRegistry objects were constructed
    refs,           \* the instance each caller of getInstance was given
    registered,     \* the keys registerProvider was called with
    lastOp,         \* the last call of a registry method, and what it returned
    held            \* the array a caller keeps from a call of getAllProviders

registryVars == << bootPc, instances, refs, registered, lastOp, held >>

vars == << providers, store, created, credential, pc, query, params, stateData, oauthProvider,
           options, clientCfg, tokens, result, writeError, hung, providerError, responses,
           calls, stages, pre, pending, connected, startVars, registryVars >>

\* A start request: the path's provider and the body's nodeId, credentialId,
\* credentialData (a seed) and nodeData.inputs.
StartRequest(provider, nodeId, credentialId, credentialData, inputs) ==
    [provider |-> provider, nodeId |-> nodeId, credentialId |-> credentialId,
     credentialData |-> credentialData, inputs |-> inputs]

NoStartRequest == StartRequest(Undefined, Undefined, Undefined, Undefined, EmptyObj)

Call(op, by, id, credentialName, name, fields) ==
    [op |-> op, by |-> by, id |-> id, credentialName |-> credentialName,
     name |-> name, fields |-> fields]

\* No request is in the server.
NoRequests ==
    /\ created = << >>
    /\ credential = [r \in Reqs |-> NotLoaded]
    /\ pc = [r \in Reqs |-> "Idle"]
    /\ query = [r \in Reqs |-> NoQuery]
    /\ params = [r \in Reqs |-> Undefined]
    /\ stateData = [r \in Reqs |-> NoStateData]
    /\ oauthProvider = [r \in Reqs |-> NoProvider]
    /\ options = [r \in Reqs |-> EmptyObj]
    /\ clientCfg = [r \in Reqs |-> NoClientCfg]
    /\ tokens = [r \in Reqs |-> NoTokens]
    /\ result = [r \in Reqs |-> NoResult]
    /\ writeError = [r \in Reqs |-> FALSE]
    /\ hung = [r \in Reqs |-> FALSE]
    /\ providerError = [r \in Reqs |-> Undefined]
    /\ responses = [r \in Reqs |-> << >>]
    /\ calls = [r \in Reqs |-> << >>]
    /\ stages = [r \in Reqs |-> << >>]
    /\ pre = [r \in Reqs |-> EmptySnapshot]
    /\ pending = [r \in Reqs |-> {}]
    /\ connected = [r \in Reqs |-> TRUE]
    /\ startPc = [r \in Reqs |-> "Idle"]
    /\ startReq = [r \in Reqs |-> NoStartRequest]
    /\ startCred = [r \in Reqs |-> EmptyObj]
    /\ startCfg = [r \in Reqs |-> NoClientCfg]
    /\ startData = [r \in Reqs |-> NoStateData]
    /\ startCalls = [r \in Reqs |-> << >>]
    /\ startResponses = [r \in Reqs |-> << >>]

ServerIdle ==
    /\ store \in InitialStores
    /\ NoRequests

\* The callers of OAuthProviderRegistry.getInstance(): start.ts 9, index.ts 15
\* and registerOAuthProviders (oauth/index.ts 47).
Holders == {"start", "index", "register"}

\* A registry method call and what it returned.
RegistryOp(op, key, descriptor, thrown, has, all, hadKey, sizeBefore) ==
    [op |-> op, key |-> key, descriptor |-> descriptor, thrown |-> thrown, has |-> has,
     all |-> all, hadKey |-> hadKey, sizeBefore |-> sizeBefore]

NoOp == RegistryOp("none", Undefined, NoProvider, FALSE, FALSE, {}, FALSE, 0)

\* The server once routes/oauth/index.ts has been evaluated: the registry
\* holds the two providers and the routes are mounted.
Init ==
    /\ providers = registerOAuthProviders
    /\ bootPc = "Listening"
    /\ instances = 1
    /\ refs = [h \in Holders |-> 1]
    /\ registered = {"gmail", "calendar"}
    /\ lastOp = NoOp
    /\ held = NoArray
    /\ ServerIdle

(***************************************************************************)
(* The callback route, cut at its awaits.                                  *)
(***************************************************************************)
Prefix(exit, page, sd, provider, st, opts, cfg) ==
    [exit |-> exit, page |-> page, stateData |-> sd, oauthProvider |-> provider,
     stages |-> st, options |-> opts, clientCfg |-> cfg]

\* index.ts 259-265
BuildOptions(sd) ==
    IF sd.credentialId = "new" /\ ~Falsy(sd.credentialData)
        THEN [credentialData |-> SeedFields(sd.credentialData)]
        ELSE EmptyObj

ResolveKeyMut(sd, provider) == provider

\* index.ts 145: providerKey || provider
ResolveKey(sd, provider) == IF Falsy(sd.providerKey) THEN provider ELSE sd.providerKey

CredentialMissingMut(c) == FALSE

\* index.ts 207: !credential
CredentialMissing(c) == ~c.found

MissingParametersMut(q) == Falsy(q.code) /\ (~q.state.given \/ q.state.s = << >>)

\* index.ts 33: !code || !state
MissingParameters(q) == Falsy(q.code) \/ ~q.state.given \/ q.state.s = << >>

\* index.ts 84-205 and, for credentialId "new", 257-289 with the provider's
\* lines 83-112: the handler from the decoded state sd to its first await.
PrefixAfterDecode(sd, provider, registry) ==
    LET key == ResolveKey(sd, provider)
        got == getProvider(registry, key)
        opts == BuildOptions(sd)
    IN  IF sd.t = "SyntaxError"
        THEN Prefix("respond", InvalidStatePage, NoStateData, NoProvider,
                    <<"ParametersValidated">>, EmptyObj, NoClientCfg)
        ELSE IF sd.t = "null"
        \* destructuring null throws a TypeError: the outer catch
        THEN Prefix("respond", UnexpectedErrorPage, sd, NoProvider,
                    <<"ParametersValidated", "StateDecoded">>, EmptyObj, NoClientCfg)
        ELSE IF got.thrown
        THEN Prefix("respond", ProviderNotFoundPage(key), sd, NoProvider,
                    <<"ParametersValidated", "StateDecoded">>, EmptyObj, NoClientCfg)
        ELSE IF sd.credentialId # "new"
        THEN Prefix("load", MissingParametersPage, sd, got.provider,
                    <<"ParametersValidated", "StateDecoded", "ProviderResolved">>,
                    EmptyObj, NoClientCfg)
        ELSE IF "credentialData" \notin DOMAIN opts
        \* handleOAuthCallback throws: the inner catch
        THEN Prefix("respond", InnerErrorPage(MissingSeedMessage), sd, got.provider,
                    <<"ParametersValidated", "StateDecoded", "ProviderResolved",
                      "CredentialContextResolved">>, opts, NoClientCfg)
        ELSE Prefix("exchange", MissingParametersPage, sd, got.provider,
                    <<"ParametersValidated", "StateDecoded", "ProviderResolved",
                      "CredentialContextResolved">>, opts,
                    ClientCfg(opts["credentialData"].clientId,
                              opts["credentialData"].clientSecret,
                              opts["credentialData"].redirectUri))

\* index.ts 30-205 (30-289 for credentialId "new"): the handler from its
\* entry to its first await.
CallbackPrefix(q, provider, registry) ==
    IF MissingParameters(q)
    THEN Prefix("respond", MissingParametersPage, NoStateData, NoProvider, << >>,
                EmptyObj, NoClientCfg)
    ELSE CHOOSE p \in { PrefixAfterDecode(sd, provider, registry) :
                            sd \in {DecodeState(q.state.s)} } : TRUE

CreateFieldsMut(seed, res) ==
    [clientId |-> seed.clientId, clientSecret |-> seed.clientSecret,
     redirectUri |-> seed.redirectUri, accessToken |-> res.accessToken,
     refreshToken |-> res.accessToken, tokenExpiry |-> res.tokenExpiry,
     authStatus |-> "authenticated"]

\* index.ts 303-315
CreateFields(seed, res) ==
    [clientId |-> seed.clientId, clientSecret |-> seed.clientSecret,
     redirectUri |-> seed.redirectUri, accessToken |-> res.accessToken,
     refreshToken |-> res.refreshToken, tokenExpiry |-> res.tokenExpiry,
     authStatus |-> "authenticated"]

SuccessUpdateFieldsSplit(res) ==
    [accessToken |-> res.accessToken, tokenExpiry |-> res.tokenExpiry,
     authStatus |-> "authenticated"]

SuccessUpdateFieldsMut(res) ==
    [accessToken |-> res.accessToken, refreshToken |-> res.refreshToken,
     authStatus |-> "authenticated"]

\* index.ts 322-329
SuccessUpdateFields(res) ==
    [accessToken |-> res.accessToken, refreshToken |-> res.refreshToken,
     tokenExpiry |-> res.tokenExpiry, authStatus |-> "authenticated"]

FailureUpdateFieldsAuth == [authStatus |-> "authenticated"]

FailureUpdateFieldsMut ==
    [authStatus |-> "notAuthenticated", accessToken |-> Undefined,
     refreshToken |-> Undefined, tokenExpiry |-> Undefined]

\* index.ts 386-390
FailureUpdateFields == [authStatus |-> "notAuthenticated"]

FailureNeedsUpdateMut(sd) == TRUE

\* index.ts 385: credentialId !== 'new'
FailureNeedsUpdate(sd) == sd.credentialId # "new"

NoCall == Call("none", "none", Undefined, Undefined, Undefined, EmptyObj)

WriteTargetMut(sd) == "c1"

\* index.ts 322 and 386: updateCredential(credentialId, ...), with the
\* credentialId of the decoded state
WriteTarget(sd) == sd.credentialId

\* index.ts 291-331 and 383-394: what the handler does with the TokenResult,
\* up to its next await or to its response.
Reconcile(sd, provider, res) ==
    IF res.authenticated
    THEN IF sd.credentialId = "new"
         THEN IF Falsy(sd.credentialData)
              \* the Error thrown at 299 is caught at 317
              THEN [exit |-> "respond", page |-> SuccessPage(provider), call |-> NoCall]
              ELSE [exit |-> "write", page |-> SuccessPage(provider),
                    call |-> Call("createCredential", "handler", Undefined,
                                  provider.credentialType, provider.displayName,
                                  CreateFields(SeedFields(sd.credentialData), res))]
         ELSE [exit |-> "write", page |-> SuccessPage(provider),
               call |-> Call("updateCredential", "handler", WriteTarget(sd), Undefined,
                             Undefined, SuccessUpdateFields(res))]
    ELSE IF FailureNeedsUpdate(sd)
         THEN [exit |-> "write", page |-> AuthFailedPage(res),
               call |-> Call("updateCredential", "handler", WriteTarget(sd), Undefined,
                             Undefined, FailureUpdateFields)]
         ELSE [exit |-> "respond", page |-> AuthFailedPage(res), call |-> NoCall]

\* index.ts 337 and 394 after a write, 441-443 when the failure branch's
\* update threw: the page rendered once the store write has returned.
PageAfterWrite(provider, res, threw) ==
    IF res.authenticated THEN SuccessPage(provider)
    ELSE IF threw THEN InnerErrorPage(StoreErrorMessage)
    ELSE AuthFailedPage(res)

SettledMut(r) == {}

\* await: the handler is resumed when the call it awaits, the last it
\* issued, has returned or thrown.  Calls are named by their place in calls.
Settled(r) == {Len(calls[r])}

Respond(r, page) ==
    /\ responses' = [responses EXCEPT ![r] = Append(@, page)]
    /\ pc' = [pc EXCEPT ![r] = "ResponseRendered"]
    /\ pending' = [pending EXCEPT ![r] = @ \ Settled(r)]

Issue(r, call, next) ==
    /\ calls' = [calls EXCEPT ![r] = Append(@, call)]
    /\ pc' = [pc EXCEPT ![r] = next]
    /\ pending' = [pending EXCEPT ![r] = (@ \ Settled(r)) \cup {Len(calls[r]) + 1}]

GetTokenCall == Call("getToken", "provider", Undefined, Undefined, Undefined, EmptyObj)
ProbeCallMut == GetTokenCall

\* GmailProvider.ts 119, GoogleCalendarProvider.ts 116: the probe
ProbeCall == Call("probe", "provider", Undefined, Undefined, Undefined, EmptyObj)
LoadCall(by, id) == Call("getCredentialById", by, id, Undefined, Undefined, EmptyObj)

\* A request arrives, with its parameters drawn from the sets given.
Receive(r, codes, queryStates, pathProviders) ==
    /\ pc[r] = "Idle"
    /\ Len(created) < MaxCreated
    /\ \E code \in codes, st \in queryStates, provider \in pathProviders :
        /\ query' = [query EXCEPT ![r] = [code |-> code, state |-> st]]
        /\ params' = [params EXCEPT ![r] = provider]
    /\ pc' = [pc EXCEPT ![r] = "AwaitingParameters"]
    /\ pre' = [pre EXCEPT ![r] = [store |-> store, created |-> created]]
    /\ connected' = [connected EXCEPT ![r] = TRUE]
    /\ UNCHANGED << startVars, registryVars, pending >>
    /\ UNCHANGED << providers, store, created, credential, stateData, oauthProvider, options,
                    clientCfg, tokens, result, writeError, hung, providerError, responses, calls,
                    stages >>

\* One request is taken at a time.
Arrive(r, codes, queryStates, pathProviders) ==
    /\ \A o \in Reqs : pc[o] = "Idle"
    /\ Receive(r, codes, queryStates, pathProviders)

Accept(r) == Arrive(r, Codes, QueryStates, PathProviders)

\* The requests of the liveness specification: well-formed ones, and one of
\* each early exit.
LiveQueryStates ==
    { [given |-> TRUE, s |-> w] :
        w \in { EncodeState(StateObject("n1", "new", "gmail", "seedA")),
                EncodeState(StateObject("n1", "new", "gmail", Undefined)),
                EncodeState(StateObject("n1", "c1", "gmail", Undefined)),
                EncodeState(StateObject("n1", "c2", "gmail", Undefined)),
                ToBase64(<<2>>),
                <<"!", "!">> } }

AcceptLive(r) == Arrive(r, {"", "code1"}, LiveQueryStates, {"gmail", "slack"})

\* index.ts 29-205 (29-289 for "new"): the handler runs to its first await.
HandleRequest(r) ==
    /\ pc[r] = "AwaitingParameters"
    /\ \E out \in {CallbackPrefix(query[r], params[r], providers)} :
           /\ stateData' = [stateData EXCEPT ![r] = out.stateData]
           /\ oauthProvider' = [oauthProvider EXCEPT ![r] = out.oauthProvider]
           /\ stages' = [stages EXCEPT ![r] = out.stages]
           /\ options' = [options EXCEPT ![r] = out.options]
           /\ clientCfg' = [clientCfg EXCEPT ![r] = out.clientCfg]
           /\ CASE out.exit = "respond" -> Respond(r, out.page) /\ UNCHANGED calls
                [] out.exit = "load" ->
                     Issue(r, LoadCall("handler", out.stateData.credentialId), "AwaitLoad")
                        /\ UNCHANGED responses
                [] out.exit = "exchange" ->
                     Issue(r, GetTokenCall, "AwaitToken") /\ UNCHANGED responses
    /\ UNCHANGED << startVars, registryVars, connected >>
    /\ UNCHANGED << providers, store, created, credential, query, params, tokens, result, writeError,
                    hung, providerError, pre >>

\* index.ts 205-289 and the provider's 83-97: getCredentialById returns or
\* throws; with a record, handleOAuthCallback starts and loads the record's
\* data through getCredentialData.
LoadReturns(r) ==
    /\ pc[r] = "AwaitLoad"
    /\ \E threw \in BOOLEAN :
        IF threw
        THEN Respond(r, UnexpectedErrorPage) /\ UNCHANGED << credential, calls, stages >>
        ELSE \E got \in {getCredentialById(store, stateData[r].credentialId)} :
            /\ credential' = [credential EXCEPT ![r] = got]
            /\ IF CredentialMissing(got)
               THEN Respond(r, CredentialNotFoundPage) /\ UNCHANGED << calls, stages >>
               ELSE /\ Issue(r, LoadCall("provider", stateData[r].credentialId),
                             "AwaitProviderLoad")
                    /\ stages' = [stages EXCEPT ![r] = Append(@, "CredentialContextResolved")]
                    /\ UNCHANGED responses
    /\ options' = [options EXCEPT ![r] = BuildOptions(stateData[r])]
    /\ UNCHANGED << startVars, registryVars, connected >>
    /\ UNCHANGED << providers, store, created, query, params, stateData, oauthProvider,
                    clientCfg, tokens, result, writeError, hung, providerError, pre >>

\* oauthUtils.ts 297-314 and the provider's 97-112: the client values are
\* resolved and the code-for-token exchange is started.
ProviderLoadReturns(r) ==
    /\ pc[r] = "AwaitProviderLoad"
    /\ \E threw \in BOOLEAN :
        LET id == stateData[r].credentialId
            loaded == IF ~threw /\ id \in DOMAIN store
                        THEN [found |-> TRUE, data |-> store[id].data]
                        ELSE [found |-> FALSE, data |-> EmptyObj]
            credentialData == getCredentialData(loaded)
        IN  clientCfg' = [clientCfg EXCEPT ![r] =
                ClientCfg(getCredentialParam("clientId", credentialData, EmptyObj, options[r]),
                          getCredentialParam("clientSecret", credentialData, EmptyObj, options[r]),
                          getCredentialParam("redirectUri", credentialData, EmptyObj, options[r]))]
    /\ Issue(r, GetTokenCall, "AwaitToken")
    /\ UNCHANGED << startVars, registryVars, connected >>
    /\ UNCHANGED << providers, store, created, credential, query, params, stateData, oauthProvider,
                    options, tokens, result, writeError, hung, providerError, responses, stages,
                    pre >>

\* The handler continues with the TokenResult res (index.ts 291-394).
Continue(r, res) ==
    LET out == Reconcile(stateData[r], oauthProvider[r], res)
    IN  /\ result' = [result EXCEPT ![r] = res]
        /\ IF out.exit = "write"
           THEN /\ Issue(r, out.call, "AwaitWrite")
                /\ stages' = [stages EXCEPT ![r] = Append(@, "TokenExchanged")]
                /\ UNCHANGED responses
           ELSE /\ Respond(r, out.page)
                /\ stages' = [stages EXCEPT ![r] =
                                @ \o <<"TokenExchanged", "CredentialReconciled">>]
                /\ UNCHANGED calls

\* The texts of the errors the token endpoint and the probe may throw.
ProviderErrorTexts == {"invalid_grant: Bad Request", "401 Request had invalid credentials"}

ProviderCatchEmpty(provider, error) ==
    TokenResult(FALSE, Undefined, Undefined, Undefined, "")

ProviderCatchMut(provider, error) ==
    TokenResult(FALSE, Undefined, Undefined, Undefined, error)

\* GmailProvider.ts 134-147, GoogleCalendarProvider.ts 141-154: catch (error)
ProviderCatch(provider, error) == FailureResult(provider)

\* The provider's 112-119 and 134-147: getToken returns tokens, and the probe
\* is started, or it throws.
TokenReturns(r) ==
    /\ pc[r] = "AwaitToken"
    /\ ~hung[r]
    /\ \/ \E t \in TokenReplies :
            /\ tokens' = [tokens EXCEPT ![r] = t]
            /\ Issue(r, ProbeCall, "AwaitProbe")
            /\ UNCHANGED << result, providerError, responses, stages >>
       \/ \E error \in ProviderErrorTexts :
            /\ providerError' = [providerError EXCEPT ![r] = error]
            /\ Continue(r, ProviderCatch(oauthProvider[r], error))
            /\ UNCHANGED tokens
    /\ UNCHANGED << startVars, registryVars, connected >>
    /\ UNCHANGED << providers, store, created, credential, query, params, stateData, oauthProvider,
                    options, clientCfg, writeError, hung, pre >>

\* The provider's 119-147: the probe returns or throws.
ProbeReturns(r) ==
    /\ pc[r] = "AwaitProbe"
    /\ ~hung[r]
    /\ \/ Continue(r, SuccessResult(tokens[r])) /\ UNCHANGED providerError
       \/ \E error \in ProviderErrorTexts :
            /\ providerError' = [providerError EXCEPT ![r] = error]
            /\ Continue(r, ProviderCatch(oauthProvider[r], error))
    /\ UNCHANGED << startVars, registryVars, connected >>
    /\ UNCHANGED << providers, store, created, credential, query, params, stateData, oauthProvider,
                    options, clientCfg, tokens, writeError, hung, pre >>

\* The endpoint awaited stops replying.  The provider sets no timeout on
\* getToken or on the probe.
ProviderHangs(r) ==
    /\ pc[r] \in {"AwaitToken", "AwaitProbe"}
    /\ ~hung[r]
    /\ hung' = [hung EXCEPT ![r] = TRUE]
    /\ UNCHANGED << providerError, pending >>
    /\ UNCHANGED << startVars, registryVars, connected >>
    /\ UNCHANGED << providers, store, created, credential, pc, query, params, stateData, oauthProvider,
                    options, clientCfg, tokens, result, writeError, responses, calls,
                    stages, pre >>

\* index.ts 303-337 and 386-443: createCredential or updateCredential returns
\* or throws, and the response is sent.
WriteReturns(r) ==
    /\ pc[r] = "AwaitWrite"
    /\ \E threw \in BOOLEAN :
        LET call == calls[r][Len(calls[r])]
        IN  /\ writeError' = [writeError EXCEPT ![r] = threw]
            /\ store' = IF ~threw /\ call.op = "updateCredential"
                          THEN StoreUpdate(store, call.id, call.fields) ELSE store
            /\ created' = IF ~threw /\ call.op = "createCredential"
                            THEN StoreCreate(created, call.credentialName, call.name, call.fields)
                            ELSE created
            /\ Respond(r, PageAfterWrite(oauthProvider[r], result[r], threw))
    /\ stages' = [stages EXCEPT ![r] = Append(@, "CredentialReconciled")]
    /\ UNCHANGED << startVars, registryVars, connected >>
    /\ UNCHANGED << providers, credential, query, params, stateData, oauthProvider, options,
                    clientCfg, tokens, result, hung, providerError, calls, pre >>

\* The request is over and its locals are dropped.
Retire(r) ==
    /\ pc[r] = "ResponseRendered"
    /\ pc' = [pc EXCEPT ![r] = "Idle"]
    /\ credential' = [credential EXCEPT ![r] = NotLoaded]
    /\ query' = [query EXCEPT ![r] = NoQuery]
    /\ params' = [params EXCEPT ![r] = Undefined]
    /\ stateData' = [stateData EXCEPT ![r] = NoStateData]
    /\ oauthProvider' = [oauthProvider EXCEPT ![r] = NoProvider]
    /\ options' = [options EXCEPT ![r] = EmptyObj]
    /\ clientCfg' = [clientCfg EXCEPT ![r] = NoClientCfg]
    /\ tokens' = [tokens EXCEPT ![r] = NoTokens]
    /\ result' = [result EXCEPT ![r] = NoResult]
    /\ writeError' = [writeError EXCEPT ![r] = FALSE]
    /\ hung' = [hung EXCEPT ![r] = FALSE]
    /\ providerError' = [providerError EXCEPT ![r] = Undefined]
    /\ responses' = [responses EXCEPT ![r] = << >>]
    /\ calls' = [calls EXCEPT ![r] = << >>]
    /\ stages' = [stages EXCEPT ![r] = << >>]
    /\ pre' = [pre EXCEPT ![r] = EmptySnapshot]
    /\ pending' = [pending EXCEPT ![r] = {}]
    /\ connected' = [connected EXCEPT ![r] = TRUE]
    /\ UNCHANGED << startVars, registryVars >>
    /\ UNCHANGED << providers, store, created >>

\* The browser drops the connection of a request that has no response yet.
Disconnect(r) ==
    /\ pc[r] \notin {"Idle", "ResponseRendered"}
    /\ connected[r]
    /\ connected' = [connected EXCEPT ![r] = FALSE]
    /\ UNCHANGED << startVars, registryVars >>
    /\ UNCHANGED << providers, store, created, credential, pc, query, params, stateData,
                    oauthProvider, options, clientCfg, tokens, result, writeError, hung,
                    providerError, responses, calls, stages, pre, pending >>

ProceedsMut(r) == connected[r]

\* index.ts 29-539: the handler sets no listener on the request's close and
\* never looks at the connection, so it goes on whether the browser is
\* there or not.
Proceeds(r) == TRUE

\* A step of the handler of request r: its synchronous start, or the
\* continuation after a call it awaits has returned or thrown.
HandlerStep(r) ==
    /\ Proceeds(r)
    /\ \/ HandleRequest(r)
       \/ LoadReturns(r)
       \/ ProviderLoadReturns(r)
       \/ TokenReturns(r)
       \/ ProbeReturns(r)
       \/ WriteReturns(r)

Next ==
    \E r \in Reqs :
        \/ Accept(r)
        \/ HandlerStep(r)
        \/ ProviderHangs(r)
        \/ Disconnect(r)
        \/ Retire(r)

Spec == Init /\ [][Next]_vars

NextLive ==
    \E r \in Reqs :
        \/ AcceptLive(r)
        \/ HandlerStep(r)
        \/ ProviderHangs(r)
        \/ Retire(r)

\* Every handler step is taken eventually: a call that returns or throws is
\* followed by the handler's continuation.  Nothing obliges a provider
\* endpoint to reply (ProviderHangs), and the provider sets no timer.
FairSpec ==
    /\ Init
    /\ [][NextLive]_vars
    /\ \A r \in Reqs : WF_vars(HandlerStep(r))

(***************************************************************************)
(* Callbacks for one existing record, handled concurrently: the handler is *)
(* an async function, so a second request is taken while the first awaits  *)
(* a load, the token endpoint, the probe or the store.                     *)
(***************************************************************************)
ConcurrentState == EncodeState(StateObject("n1", "c1", "gmail", Undefined))

\* A callback for record c1 arrives, whatever the other request is doing.
AcceptConcurrent(r) ==
    Receive(r, {"code1"}, {[given |-> TRUE, s |-> ConcurrentState]}, {"gmail"})

ConcNext ==
    \E r \in Reqs :
        \/ AcceptConcurrent(r)
        \/ HandlerStep(r)
        \/ Retire(r)

ConcSpec == Init /\ [][ConcNext]_vars

(***************************************************************************)
(* Callbacks for different records, handled concurrently: the store holds  *)
(* the records c1 and c2, and each of two requests is for c1, for c2 or    *)
(* for a record to create.                                                 *)
(***************************************************************************)
TwoRecordStores ==
    { [id \in {"c1", "c2"} |->
            StoredRecord("gmailOAuth", IF id = "c1" THEN "My Gmail" ELSE "Team Gmail", d[id])] :
        d \in [{"c1", "c2"} -> {UnauthenticatedData, AuthenticatedData}] }

SeparateStates ==
    { [given |-> TRUE, s |-> EncodeState(o)] :
        o \in { StateObject("n1", "c1", "gmail", Undefined),
                StateObject("n1", "c2", "gmail", Undefined),
                StateObject("n1", "new", "gmail", "seedA") } }

SeparateInit ==
    /\ providers = registerOAuthProviders
    /\ bootPc = "Listening"
    /\ instances = 1
    /\ refs = [h \in Holders |-> 1]
    /\ registered = {"gmail", "calendar"}
    /\ lastOp = NoOp
    /\ held = NoArray
    /\ store \in TwoRecordStores
    /\ NoRequests

AcceptSeparate(r) == Receive(r, {"code1"}, SeparateStates, {"gmail"})

SeparateNext ==
    \E r \in Reqs :
        \/ AcceptSeparate(r)
        \/ HandlerStep(r)

SeparateSpec == SeparateInit /\ [][SeparateNext]_vars

(***************************************************************************)
(* The start route (routes/oauth/start.ts) and the descriptors' startOAuth.*)
(***************************************************************************)
\* GmailProvider.ts 17-25, GoogleCalendarProvider.ts 17-22
scopes(provider) ==
    IF provider.providerKey = "gmail"
    THEN << "mail.google.com", "gmail.readonly", "gmail.send", "gmail.compose",
            "gmail.modify", "gmail.labels", "gmail.settings.basic" >>
    ELSE << "calendar", "calendar.events", "calendar.readonly",
            "calendar.settings.readonly" >>

\* An error message: a fixed text followed by a value taken from the request.
ErrorMessage(text, arg) == [text |-> text, arg |-> arg]
NoMessage == ErrorMessage("", "")

\* String.prototype.includes, for the messages of the model: none of their
\* fixed texts holds a needle the route looks for.
includes(message, needle) == message.arg = needle

\* An Error (statusCode 500 stands for "none") or an InternalFlowiseError.
Thrown(internal, statusCode, message) ==
    [internal |-> internal, statusCode |-> statusCode, message |-> message]

NoError == Thrown(FALSE, 0, NoMessage)

\* start.ts 28
ProviderNotFoundError(provider) ==
    Thrown(TRUE, 404, ErrorMessage("OAuth provider not found: ", provider))

\* GmailProvider.ts 41, GoogleCalendarProvider.ts 38
MissingCredentialsError(provider) ==
    Thrown(FALSE, 0,
        ErrorMessage(IF provider.providerKey = "gmail"
            THEN "Missing required credentials for Gmail API. Please configure the OAuth credentials first."
            ELSE "Missing required credentials for Google Calendar API. Please configure the OAuth credentials first.",
            ""))

\* errors/utils getErrorMessage: the message of the error
getErrorMessage(error) == error.message

AuthUrl(access_type, prompt, scope, state, client_id, redirect_uri) ==
    [access_type |-> access_type, prompt |-> prompt, scope |-> scope, state |-> state,
     client_id |-> client_id, redirect_uri |-> redirect_uri]

NoAuthUrl == AuthUrl(Undefined, Undefined, << >>, << >>, Undefined, Undefined)

StartResponse(status, authUrl, message) ==
    [status |-> status, authUrl |-> authUrl, message |-> message]

StartErrorMessageMut(error) == NoMessage

\* start.ts 63-72: the message the route sends for a caught error
StartErrorMessage(error) ==
    LET m == getErrorMessage(error)
    IN  IF includes(m, "invalid_client")
        THEN ErrorMessage("Invalid client credentials. Please verify your Client ID and Client Secret are correct.", "")
        ELSE IF includes(m, "redirect_uri_mismatch")
        THEN ErrorMessage("Redirect URI mismatch. Please ensure the redirect URI matches what is configured in the OAuth provider settings.", "")
        ELSE IF m = NoMessage
        THEN ErrorMessage("Failed to start OAuth flow", "")
        ELSE m

\* start.ts 59-75
StartFailure(error) ==
    StartResponse(IF error.internal THEN error.statusCode ELSE 500, NoAuthUrl,
                  StartErrorMessage(error))

\* start.ts 58
StartSuccess(authUrl) == StartResponse(200, authUrl, NoMessage)

\* start.ts 35-41
StartNodeData(req) ==
    [id |-> req.nodeId,
     credential |-> IF Falsy(req.credentialId) THEN "new" ELSE req.credentialId,
     inputs |-> req.inputs]

\* start.ts 44-54
StartOptions(req) ==
    IF Falsy(req.credentialData) THEN EmptyObj
    ELSE [credentialData |-> SeedFields(req.credentialData)]

SeedNames == {"seedA", "seedB", "seedBlank", "seedPartial"}

\* The seed whose fields are given.
SeedName(fields) == CHOOSE n \in SeedNames : SeedFields(n) = fields

BuildStateDataLeak(provider, nodeData, opts) ==
    StateObject(nodeData.id,
                IF Falsy(nodeData.credential) THEN "new" ELSE nodeData.credential,
                provider.providerKey,
                IF "credentialData" \in DOMAIN opts
                    THEN SeedName(opts["credentialData"]) ELSE Undefined)

BuildStateDataMut(provider, nodeData, opts) ==
    StateObject(nodeData.id, nodeData.credential, provider.providerKey, Undefined)

\* GmailProvider.ts 45-53, GoogleCalendarProvider.ts 42-50
BuildStateData(provider, nodeData, opts) ==
    StateObject(nodeData.id,
                IF Falsy(nodeData.credential) THEN "new" ELSE nodeData.credential,
                provider.providerKey,
                IF nodeData.credential = "new" /\ "credentialData" \in DOMAIN opts
                    THEN SeedName(opts["credentialData"]) ELSE Undefined)

\* GmailProvider.ts 40, GoogleCalendarProvider.ts 37
MissingCredentials(clientId, clientSecret, redirectUri) ==
    Falsy(clientId) \/ Falsy(clientSecret) \/ Falsy(redirectUri)

StartResult(thrown, error, authUrl, sd, cfg) ==
    [thrown |-> thrown, error |-> error, authUrl |-> authUrl, stateData |-> sd,
     clientCfg |-> cfg]

\* GmailProvider.ts 36-73, GoogleCalendarProvider.ts 33-70: startOAuth once
\* getCredentialData has resolved to credentialData
startOAuth(provider, nodeData, opts, credentialData) ==
    LET clientId == getCredentialParam("clientId", credentialData, nodeData.inputs, opts)
        clientSecret == getCredentialParam("clientSecret", credentialData, nodeData.inputs, opts)
        redirectUri == getCredentialParam("redirectUri", credentialData, nodeData.inputs, opts)
    IN  IF MissingCredentials(clientId, clientSecret, redirectUri)
        THEN StartResult(TRUE, MissingCredentialsError(provider), NoAuthUrl, NoStateData,
                         ClientCfg(clientId, clientSecret, redirectUri))
        ELSE CHOOSE res \in
                { StartResult(FALSE, NoError,
                      AuthUrl("offline", "consent", scopes(provider), EncodeState(sd),
                              clientId, redirectUri), sd,
                      ClientCfg(clientId, clientSecret, redirectUri)) :
                  sd \in {BuildStateData(provider, nodeData, opts)} } : TRUE

\* start.ts 56-75: what the route answers once startOAuth has settled
StartAnswer(res) ==
    IF res.thrown THEN StartFailure(res.error) ELSE StartSuccess(res.authUrl)

\* The bodies a client may post: nodeData.inputs, and credentialId and
\* credentialData in the combinations that tell the paths of startOAuth apart.
NodeInputs ==
    { EmptyObj, [clientId |-> "idN", clientSecret |-> "secretN", redirectUri |-> "uriN"] }

\* nodeData.inputs with some of the client values
PartialInputs == [clientId |-> "idN", clientSecret |-> "secretN"]

StartBodies ==
    { [credentialId |-> c, credentialData |-> "seedA", inputs |-> EmptyObj] :
        c \in {Undefined, "new", "c1"} }
    \cup { [credentialId |-> "new", credentialData |-> "seedBlank", inputs |-> EmptyObj] }
    \cup { [credentialId |-> c, credentialData |-> Undefined, inputs |-> i] :
            c \in {"new", "c2"}, i \in NodeInputs }
    \cup { [credentialId |-> c, credentialData |-> Undefined, inputs |-> EmptyObj] :
            c \in {Undefined, "c1"} }
    \cup { [credentialId |-> "c1", credentialData |-> d, inputs |-> PartialInputs] :
            d \in {Undefined, "seedPartial"} }

StartRequests ==
    { StartRequest(p, n, b.credentialId, b.credentialData, b.inputs) :
        p \in {"gmail", "calendar"}, n \in {Undefined, "n1"}, b \in StartBodies }
    \cup { StartRequest(p, "n1", c, "seedA", EmptyObj) :
            p \in {"slack", "invalid_client"}, c \in {"new", "c1"} }

StartOAuthCall == Call("startOAuth", "route", Undefined, Undefined, Undefined, EmptyObj)

StartRespond(r, response) ==
    /\ startResponses' = [startResponses EXCEPT ![r] = Append(@, response)]
    /\ startPc' = [startPc EXCEPT ![r] = "Answered"]

\* A start request arrives, drawn from the set given.  One request is
\* handled at a time; an answered one stays until it is retired.
StartReceive(r, requests) ==
    /\ startPc[r] = "Idle"
    /\ \A o \in Reqs : startPc[o] \in {"Idle", "Answered"}
    /\ \E req \in requests : startReq' = [startReq EXCEPT ![r] = req]
    /\ startPc' = [startPc EXCEPT ![r] = "Received"]
    /\ UNCHANGED << startCred, startCfg, startData, startCalls, startResponses >>

StartAccept(r) == StartReceive(r, StartRequests)

\* start.ts 16-56 and the provider's 30-35: the route checks the provider
\* and calls startOAuth, which runs to its load of the stored credential;
\* for credential "new" getCredentialData resolves to {} without a load
\* (oauthUtils.ts 300) and startOAuth runs to its end.
StartHandle(r) ==
    /\ startPc[r] = "Received"
    /\ \E req \in {startReq[r]} :
        IF ~hasProvider(providers, req.provider)
        THEN /\ StartRespond(r, StartFailure(ProviderNotFoundError(req.provider)))
             /\ UNCHANGED << startCred, startCfg, startData, startCalls >>
        ELSE \E nodeData \in {StartNodeData(req)} :
            IF nodeData.credential = "new"
            THEN \E res \in { startOAuth(getProvider(providers, req.provider).provider,
                                        nodeData, StartOptions(req), EmptyObj) } :
                    /\ StartRespond(r, StartAnswer(res))
                    /\ startData' = [startData EXCEPT ![r] = res.stateData]
                    /\ startCfg' = [startCfg EXCEPT ![r] = res.clientCfg]
                    /\ startCred' = [startCred EXCEPT ![r] = EmptyObj]
                    /\ startCalls' = [startCalls EXCEPT ![r] = Append(@, StartOAuthCall)]
            ELSE /\ startCalls' = [startCalls EXCEPT ![r] =
                        @ \o << StartOAuthCall, LoadCall("provider", nodeData.credential) >>]
                 /\ startPc' = [startPc EXCEPT ![r] = "AwaitStartLoad"]
                 /\ UNCHANGED << startCred, startCfg, startData, startResponses >>
    /\ UNCHANGED startReq

\* oauthUtils.ts 303-313 and the provider's 36-73: the load returns or
\* throws, and startOAuth runs to its end.
StartLoadReturns(r) ==
    /\ startPc[r] = "AwaitStartLoad"
    /\ \E threw \in BOOLEAN :
        \E loaded \in { IF threw THEN NoRecord
                        ELSE getCredentialById(store, StartNodeData(startReq[r]).credential) } :
        \E res \in { startOAuth(getProvider(providers, startReq[r].provider).provider,
                                StartNodeData(startReq[r]), StartOptions(startReq[r]),
                                getCredentialData(loaded)) } :
            /\ StartRespond(r, StartAnswer(res))
            /\ startCred' = [startCred EXCEPT ![r] = getCredentialData(loaded)]
            /\ startData' = [startData EXCEPT ![r] = res.stateData]
            /\ startCfg' = [startCfg EXCEPT ![r] = res.clientCfg]
    /\ UNCHANGED << startReq, startCalls >>

\* The start request is over and its locals are dropped.
StartRetire(r) ==
    /\ startPc[r] = "Answered"
    /\ startPc' = [startPc EXCEPT ![r] = "Idle"]
    /\ startReq' = [startReq EXCEPT ![r] = NoStartRequest]
    /\ startCred' = [startCred EXCEPT ![r] = EmptyObj]
    /\ startCfg' = [startCfg EXCEPT ![r] = NoClientCfg]
    /\ startData' = [startData EXCEPT ![r] = NoStateData]
    /\ startCalls' = [startCalls EXCEPT ![r] = << >>]
    /\ startResponses' = [startResponses EXCEPT ![r] = << >>]

callbackVars ==
    << credential, pc, query, params, stateData, oauthProvider, options, clientCfg, tokens,
       result, writeError, hung, providerError, responses, calls, stages, pre, pending,
       connected >>

StartNext ==
    /\ \E r \in Reqs :
        \/ StartAccept(r)
        \/ StartHandle(r)
        \/ StartLoadReturns(r)
        \/ StartRetire(r)
    /\ UNCHANGED << providers, store, created >>
    /\ UNCHANGED << callbackVars, registryVars >>

\* The start route on its own: it reads the registry and the store and
\* writes neither.
StartSpec == Init /\ [][StartNext]_vars

(***************************************************************************)
(* The registry on its own: any caller may obtain the instance, register   *)
(* descriptors in any order and look keys up.                              *)
(***************************************************************************)
slackProvider ==
    [providerKey |-> "slack", displayName |-> "Slack", credentialType |-> "slackOAuth"]

\* Another descriptor with the same providerKey.
Revised(d) == [d EXCEPT !.displayName = "Revised"]

Descriptors ==
    { gmailProvider, googleCalendarProvider, slackProvider,
      Revised(gmailProvider), Revised(googleCalendarProvider), Revised(slackProvider) }

\* The keys looked up; no descriptor has the key "unknown".
RegistryKeys == {"gmail", "calendar", "slack", "unknown"}

\* Nothing has been loaded: no instance, no registration.
RegistryInit ==
    /\ providers = EmptyMap
    /\ bootPc = "LoadStart"
    /\ instances = 0
    /\ refs = [h \in Holders |-> 0]
    /\ registered = {}
    /\ lastOp = NoOp
    /\ held = NoArray
    /\ ServerIdle

requestVars == << store, created, callbackVars, startVars >>

\* OAuthProviderRegistry.getInstance() called by h
ObtainInstance(h) ==
    /\ instances' = getInstance(instances)
    /\ refs' = [refs EXCEPT ![h] = instances']

GetInstance(h) ==
    /\ refs[h] = 0
    /\ ObtainInstance(h)
    /\ UNCHANGED << providers, bootPc, registered, lastOp, held, requestVars >>

RegisterProvider(d) ==
    /\ instances >= 1
    /\ providers' = registerProvider(providers, d)
    /\ registered' = registered \cup {d.providerKey}
    /\ lastOp' = RegistryOp("registerProvider", d.providerKey, d, FALSE, FALSE, {},
                            d.providerKey \in registered, Cardinality(DOMAIN providers))
    /\ UNCHANGED << bootPc, instances, refs, held, requestVars >>

GetProvider(key) ==
    /\ instances >= 1
    /\ \E g \in {getProvider(providers, key)} :
            lastOp' = RegistryOp("getProvider", key, g.provider, g.thrown, FALSE, {}, FALSE, 0)
    /\ UNCHANGED << providers, bootPc, instances, refs, registered, held, requestVars >>

HasProvider(key) ==
    /\ instances >= 1
    /\ lastOp' = RegistryOp("hasProvider", key, NoProvider, FALSE,
                            hasProvider(providers, key), {}, FALSE, 0)
    /\ UNCHANGED << providers, bootPc, instances, refs, registered, held, requestVars >>

\* The caller keeps the array returned.
GetAllProviders ==
    /\ instances >= 1
    /\ held' = ArrayFrom(providers)
    /\ lastOp' = RegistryOp("getAllProviders", Undefined, NoProvider, FALSE, FALSE,
                            Items(held', providers), FALSE, 0)
    /\ UNCHANGED << providers, bootPc, instances, refs, registered, requestVars >>

\* The caller empties the array it keeps (array.length = 0).
ClearArray ==
    /\ held.taken
    /\ held.seen # {}
    /\ held' = [held EXCEPT !.items = {}, !.seen = {}]
    /\ providers' = IF held.live THEN EmptyMap ELSE providers
    /\ UNCHANGED << bootPc, instances, refs, registered, lastOp, requestVars >>

RegistryNext ==
    \/ \E h \in Holders : GetInstance(h)
    \/ \E d \in Descriptors : RegisterProvider(d)
    \/ \E key \in RegistryKeys : GetProvider(key) \/ HasProvider(key)
    \/ GetAllProviders
    \/ ClearArray

RegistrySpec == RegistryInit /\ [][RegistryNext]_vars

(***************************************************************************)
(* The server from the evaluation of routes/oauth/index.ts on.  The module *)
(* is evaluated synchronously: its imports first (start.ts, oauth/index.ts)*)
(* then its body; requests are dispatched once it has been evaluated.      *)
(***************************************************************************)
\* start.ts 9: const oauthRegistry = OAuthProviderRegistry.getInstance()
LoadStartModule ==
    /\ bootPc = "LoadStart"
    /\ ObtainInstance("start")
    /\ bootPc' = "LoadIndex"
    /\ UNCHANGED << providers, registered, lastOp, held, requestVars >>

\* index.ts 15: const oauthRegistry = OAuthProviderRegistry.getInstance()
LoadIndexModule ==
    /\ bootPc = "LoadIndex"
    /\ ObtainInstance("index")
    /\ bootPc' = "Register"
    /\ UNCHANGED << providers, registered, lastOp, held, requestVars >>

\* index.ts 18: registerOAuthProviders(), on the registry nothing was
\* registered in
RegisterOAuthProviders ==
    /\ bootPc = "Register"
    /\ providers = EmptyMap
    /\ ObtainInstance("register")
    /\ providers' = registerOAuthProviders
    /\ registered' = {gmailProvider.providerKey, googleCalendarProvider.providerKey}
    /\ lastOp' = RegistryOp("getAllProviders", Undefined, NoProvider, FALSE, FALSE,
                            getAllProviders(providers'), FALSE, 0)
    /\ bootPc' = "MountRoutes"
    /\ UNCHANGED << held, requestVars >>

\* index.ts 21 and 29: the routes are set on the router, and the module is
\* evaluated.
MountRoutes ==
    /\ bootPc = "MountRoutes"
    /\ bootPc' = "Listening"
    /\ UNCHANGED << providers, instances, refs, registered, lastOp, held, requestVars >>

BootInit == RegistryInit

\* The start requests and the callbacks of the server once booted.
BootStartRequests ==
    { StartRequest("calendar", "n1", "c1", Undefined, EmptyObj),
      StartRequest("slack", "n1", "new", "seedA", EmptyObj) }

BootQueryStates ==
    { [given |-> TRUE, s |-> w] :
        w \in { EncodeState(StateObject("n1", "new", "gmail", "seedA")),
                EncodeState(StateObject("n1", "c1", "calendar", Undefined)),
                EncodeState(StateObject("n1", "c1", "slack", Undefined)) } }

BootStartStep ==
    /\ \E r \in Reqs :
        \/ StartReceive(r, BootStartRequests)
        \/ StartHandle(r)
        \/ StartLoadReturns(r)
        \/ StartRetire(r)
    /\ UNCHANGED << providers, store, created >>
    /\ UNCHANGED << callbackVars, registryVars >>

BootCallbackStep ==
    \E r \in Reqs :
        \/ Arrive(r, {"code1"}, BootQueryStates, {"gmail"})
        \/ HandlerStep(r)
        \/ Retire(r)

BootNext ==
    \/ LoadStartModule
    \/ LoadIndexModule
    \/ RegisterOAuthProviders
    \/ MountRoutes
    \/ bootPc = "Listening" /\ BootStartStep
    \/ bootPc = "Listening" /\ BootCallbackStep

BootSpec == BootInit /\ [][BootNext]_vars

(***************************************************************************)
(* Properties of the callback route.                                       *)
(***************************************************************************)
Rendered(r) == pc[r] = "ResponseRendered"

\* The create and update calls a request issued.
Writes(r) == SelectSeq(calls[r], LAMBDA c : c.op \in {"createCredential", "updateCredential"})

\* The request's state was decoded and names credentialId "new" with a seed.
NewFlowWithSeed(r) ==
    stateData[r].credentialId = "new" /\ ~Falsy(stateData[r].credentialData)

\* The request's state was decoded and names a record that exists.
ExistingFlow(r) == stateData[r].credentialId \in DOMAIN pre[r].store

TokenFields == {"accessToken", "refreshToken", "tokenExpiry"}
ClientFields == {"clientId", "clientSecret", "redirectUri"}

\* The record a successful "new" callback is to create.
ExpectedNewRecord(r) ==
    StoredRecord(oauthProvider[r].credentialType, oauthProvider[r].displayName,
        [clientId |-> SeedFields(stateData[r].credentialData).clientId,
         clientSecret |-> SeedFields(stateData[r].credentialData).clientSecret,
         redirectUri |-> SeedFields(stateData[r].credentialData).redirectUri,
         accessToken |-> tokens[r].access_token,
         refreshToken |-> tokens[r].refresh_token,
         tokenExpiry |-> tokens[r].expiry_date,
         authStatus |-> "authenticated"])

\* C1: a callback for credentialId "new" with a seed whose exchange and probe
\* succeed issues exactly one create, of the descriptor's credentialType, with
\* the seed's client values, the exchange's tokens and authStatus
\* "authenticated"; the store then holds exactly that one record more (none
\* when the store rejected the create) and no existing record is modified.
C1_NewCredentialCreated ==
    \A r \in Reqs :
        (Rendered(r) /\ NewFlowWithSeed(r) /\ result[r].authenticated) =>
            /\ Len(Writes(r)) = 1
            /\ Writes(r)[1].op = "createCredential"
            /\ Writes(r)[1].credentialName = oauthProvider[r].credentialType
            /\ Writes(r)[1].fields = ExpectedNewRecord(r).data
            /\ store = pre[r].store
            /\ created = IF writeError[r] THEN pre[r].created
                         ELSE Append(pre[r].created, ExpectedNewRecord(r))

C1_Witness ==
    \E r \in Reqs :
        /\ Rendered(r) /\ NewFlowWithSeed(r) /\ result[r].authenticated
        /\ ~writeError[r]
        /\ Len(created) = Len(pre[r].created) + 1
        /\ created[Len(created)].credentialName = "googleCalendarOAuth"

\* C2: a callback on an existing record whose TokenResult is not
\* authenticated writes that record's authStatus = "notAuthenticated" and
\* nothing else: its tokens, and every other field, stay as they were.
C2_FailureWritesOnlyAuthStatus ==
    \A r \in Reqs :
        (Rendered(r) /\ ExistingFlow(r) /\ result[r].returned /\ ~result[r].authenticated) =>
            LET id == stateData[r].credentialId
            IN  /\ Len(Writes(r)) = 1
                /\ Writes(r)[1].op = "updateCredential"
                /\ Writes(r)[1].id = id
                /\ Writes(r)[1].fields = [authStatus |-> "notAuthenticated"]
                /\ \A k \in (DOMAIN store[id].data) \cup (DOMAIN pre[r].store[id].data) :
                        k # "authStatus" =>
                            Get(store[id].data, k) = Get(pre[r].store[id].data, k)
                /\ ~writeError[r] => store[id].data["authStatus"] = "notAuthenticated"
                /\ created = pre[r].created

C2_Witness ==
    \E r \in Reqs :
        /\ Rendered(r) /\ ExistingFlow(r) /\ result[r].returned /\ ~result[r].authenticated
        /\ ~writeError[r]
        /\ pre[r].store["c1"].data["authStatus"] = "authenticated"
        /\ store["c1"].data["authStatus"] = "notAuthenticated"
        /\ store["c1"].data["accessToken"] = "at0"

\* C3: a callback on an existing record whose exchange and probe succeed
\* issues one update of that record with exactly the exchange's accessToken,
\* refreshToken and tokenExpiry and authStatus = "authenticated"; the
\* record's client values are unchanged and no record is created.
C3_SuccessUpdatesTokens ==
    \A r \in Reqs :
        (Rendered(r) /\ ExistingFlow(r) /\ result[r].authenticated) =>
            LET id == stateData[r].credentialId
            IN  /\ Len(Writes(r)) = 1
                /\ Writes(r)[1].op = "updateCredential"
                /\ Writes(r)[1].id = id
                /\ Writes(r)[1].fields =
                        [accessToken |-> tokens[r].access_token,
                         refreshToken |-> tokens[r].refresh_token,
                         tokenExpiry |-> tokens[r].expiry_date,
                         authStatus |-> "authenticated"]
                /\ \A k \in ClientFields :
                        Get(store[id].data, k) = Get(pre[r].store[id].data, k)
                /\ ~writeError[r] =>
                        store[id].data = Spread(pre[r].store[id].data, Writes(r)[1].fields)
                /\ created = pre[r].created

C3_Witness ==
    \E r \in Reqs :
        /\ Rendered(r) /\ ExistingFlow(r) /\ result[r].authenticated
        /\ ~writeError[r]
        /\ pre[r].store["c1"].data["authStatus"] = "notAuthenticated"
        /\ store["c1"].data["authStatus"] = "authenticated"
        /\ store["c1"].data["accessToken"] = "at1"
        /\ store["c1"].data["clientSecret"] = "secretC"

\* C4: a callback for credentialId "new" whose TokenResult is not
\* authenticated issues no create and no update, leaves the store as it was
\* and renders a failure page.
C4_NewFailureDiscarded ==
    \A r \in Reqs :
        (Rendered(r) /\ stateData[r].credentialId = "new"
                /\ result[r].returned /\ ~result[r].authenticated) =>
            /\ Writes(r) = << >>
            /\ store = pre[r].store
            /\ created = pre[r].created
            /\ Len(responses[r]) = 1
            /\ responses[r][1].page = "failure"

C4_Witness ==
    \E r \in Reqs :
        /\ Rendered(r) /\ stateData[r].credentialId = "new"
        /\ result[r].returned /\ ~result[r].authenticated
        /\ tokens[r] # NoTokens
        /\ responses[r] = << AuthFailedPage(result[r]) >>

\* C5: the response reflects only the TokenResult: the success page iff
\* authenticated, the authentication-failure page iff not, whether the store
\* write that follows succeeds or throws.
C5_ResponseReflectsTokenResult ==
    \A r \in Reqs :
        (Rendered(r) /\ result[r].returned) =>
            responses[r] = << IF result[r].authenticated
                                THEN SuccessPage(oauthProvider[r])
                                ELSE AuthFailedPage(result[r]) >>

\* The credential id the request's state parameter names.
NamedCredential(r) ==
    IF query[r].state.given THEN DecodeState(query[r].state.s).credentialId ELSE Undefined

\* C6: after a callback that ends in a failure response, the existing record
\* its state names has authStatus "notAuthenticated"; when the state names no
\* existing record, nothing was created or modified.
C6_FailureLeavesNotAuthenticated ==
    \A r \in Reqs :
        (Rendered(r) /\ responses[r][Len(responses[r])].page = "failure") =>
            IF NamedCredential(r) \in DOMAIN store
                THEN Get(store[NamedCredential(r)].data, "authStatus") = "notAuthenticated"
                ELSE Writes(r) = << >> /\ store = pre[r].store /\ created = pre[r].created

\* C7: every callback request ends with exactly one rendered response.
C7_AlwaysExactlyOneResponse ==
    \A r \in Reqs :
        /\ [](Len(responses[r]) <= 1)
        /\ (pc[r] # "Idle") ~> (Rendered(r) /\ Len(responses[r]) = 1)

\* C8: when the token endpoint or the probe endpoint never replies, the
\* handler still completes, with authenticated = false and a failure page.
C8_HungProviderFailsIntoNotAuthenticated ==
    \A r \in Reqs :
        (pc[r] \in {"AwaitToken", "AwaitProbe"} /\ hung[r]) ~>
            (/\ Rendered(r)
             /\ result[r].returned /\ ~result[r].authenticated
             /\ responses[r][Len(responses[r])].page = "failure")

\* C9: a callback whose code or state is missing or empty is answered 400
\* with a failure page, and the handler decodes no state, looks up no
\* provider and calls neither the credential store nor a provider.
C9_MissingParametersRejected ==
    \A r \in Reqs :
        (pc[r] # "Idle" /\
            (query[r].code \in {Undefined, ""} \/ ~query[r].state.given
                \/ query[r].state.s = << >>)) =>
            /\ stateData[r] = NoStateData
            /\ oauthProvider[r] = NoProvider
            /\ calls[r] = << >>
            /\ stages[r] = << >>
            /\ Rendered(r) =>
                /\ Len(responses[r]) = 1
                /\ responses[r][1].status = 400
                /\ responses[r][1].page = "failure"

C9_Witness ==
    \E r \in Reqs :
        /\ Rendered(r)
        /\ query[r].code = ""
        /\ query[r].state.given
        /\ DecodeState(query[r].state.s).credentialId = "c1"
        /\ responses[r] = << MissingParametersPage >>

\* A state parameter that is not base64, or is the base64 of a text that is
\* not JSON.
SyntacticallyInvalid(s) == ~IsBase64(s) \/ JSONparse(FromBase64(s)).t = "SyntaxError"

\* C10: a callback whose state is syntactically invalid is answered 400 with
\* a failure page and reaches neither provider resolution, nor a credential
\* load, nor the token exchange.
C10_InvalidStateRejected ==
    \A r \in Reqs :
        (pc[r] # "Idle" /\ ~MissingParameters(query[r])
                /\ SyntacticallyInvalid(query[r].state.s)) =>
            /\ oauthProvider[r] = NoProvider
            /\ calls[r] = << >>
            /\ \A i \in 1..Len(stages[r]) :
                    stages[r][i] \in {"ParametersValidated", "StateDecoded"}
            /\ Rendered(r) =>
                /\ responses[r][1].status = 400
                /\ responses[r][1].page = "failure"

\* The handler of request r has run past its synchronous start.
Started(r) == pc[r] \notin {"Idle", "AwaitingParameters"}

\* What the state parameter of request r decodes to.
Decoded(r) == DecodeState(query[r].state.s)

\* A decoded value that is JSON but not a complete correlation payload.
IncompletePayload(d) ==
    d.t \in {"null", "number"} \/ (d.t = "object" /\ d.credentialId = Undefined)

\* C11: a callback whose state decodes to JSON that is not a complete
\* correlation payload (null, a number, an object without credentialId) is
\* answered 400 with a failure page, and no provider is looked up and no
\* credential-store or provider call is made.
C11_IncompletePayloadRejected ==
    \A r \in Reqs :
        (Started(r) /\ ~MissingParameters(query[r]) /\ IncompletePayload(Decoded(r))) =>
            /\ oauthProvider[r] = NoProvider
            /\ calls[r] = << >>
            /\ Rendered(r)
            /\ Len(responses[r]) = 1
            /\ responses[r][1].status = 400
            /\ responses[r][1].page = "failure"

C13_NewWithoutSeedIsBadRequest ==
    \A r \in Reqs :
        (Rendered(r) /\ ~MissingParameters(query[r]) /\ Decoded(r).t = "object"
                /\ Decoded(r).credentialId = "new" /\ Decoded(r).credentialData = Undefined) =>
            /\ Len(responses[r]) = 1
            /\ responses[r][1].status \in 400..499
            /\ responses[r][1].page = "failure"
            /\ \A i \in 1..Len(calls[r]) : calls[r][i].op # "getToken"
            /\ created = pre[r].created

\* C14: when the credential store returns no record for the id the state
\* names, the response is 404 with a failure page and the request makes no
\* token exchange, no probe and no store write.
C14_MissingRecordIsNotFound ==
    \A r \in Reqs :
        credential[r] = NoRecord =>
            /\ Rendered(r)
            /\ responses[r] = << CredentialNotFoundPage >>
            /\ responses[r][1].status = 404
            /\ calls[r] = << LoadCall("handler", stateData[r].credentialId) >>
            /\ store = pre[r].store
            /\ created = pre[r].created

C14_Witness ==
    \E r \in Reqs :
        /\ credential[r] = NoRecord
        /\ stateData[r].credentialId = "c2"
        /\ oauthProvider[r] = gmailProvider
        /\ Rendered(r)

(***************************************************************************)
(* Properties of the start route and of the state codec.                   *)
(***************************************************************************)
Answered(r) == startPc[r] = "Answered"

\* The start request of r names a registered provider.
Registered(r) == startReq[r].provider \in DOMAIN providers

\* startOAuth ran to its end and returned an authorization URL.
StartSucceeded(r) == Answered(r) /\ startData[r].t = "object"

\* C15: a start request for a registered provider p with credentialId "new"
\* or absent and a seed whose clientId, clientSecret and redirectUri are
\* non-empty is answered with an authUrl carrying access_type=offline,
\* prompt=consent, p's scopes and a state that decodes to credentialId
\* "new", providerKey p and the seed supplied.
C15_StartBuildsAuthUrlForNew ==
    \A r \in Reqs :
        (Answered(r) /\ Registered(r) /\ startReq[r].credentialId \in {Undefined, "new"}
                /\ startReq[r].credentialData # Undefined
                /\ \A k \in ClientFields :
                        SeedFields(startReq[r].credentialData)[k] \notin {Undefined, ""}) =>
            /\ Len(startResponses[r]) = 1
            /\ startResponses[r][1].status = 200
            /\ LET url == startResponses[r][1].authUrl
                   d == DecodeState(url.state)
               IN  /\ url.access_type = "offline"
                   /\ url.prompt = "consent"
                   /\ url.scope = scopes(providers[startReq[r].provider])
                   /\ d.t = "object"
                   /\ d.credentialId = "new"
                   /\ d.providerKey = startReq[r].provider
                   /\ d.credentialData = startReq[r].credentialData
                   /\ SeedFields(d.credentialData) = SeedFields(startReq[r].credentialData)

C15_Witness ==
    \E r \in Reqs :
        /\ Answered(r)
        /\ startReq[r] = StartRequest("calendar", "n1", Undefined, "seedA", EmptyObj)
        /\ startResponses[r][1].status = 200
        /\ startResponses[r][1].authUrl.prompt = "consent"
        /\ DecodeState(startResponses[r][1].authUrl.state).credentialData = "seedA"

\* A value that is absent, empty or blank.
Blank(x) == x \in {Undefined, "", " "}

\* C16: a startOAuth call in which clientId, clientSecret or redirectUri is
\* absent, empty or blank after resolution fails with the MissingCredentials
\* error, returns no authorization URL and performs no network call.
C16_BlankCredentialsRejected ==
    \A r \in Reqs :
        (Answered(r) /\ Registered(r) /\ \E k \in ClientFields : Blank(startCfg[r][k])) =>
            /\ Len(startResponses[r]) = 1
            /\ startResponses[r][1].authUrl = NoAuthUrl
            /\ startResponses[r][1].status \notin 200..299
            /\ startResponses[r][1].message =
                    MissingCredentialsError(providers[startReq[r].provider]).message
            /\ \A i \in 1..Len(startCalls[r]) : startCalls[r][i].op \notin {"getToken", "probe"}

\* C17: a start request for a provider key that is not registered is
\* answered 404 before any credential is loaded and before startOAuth is
\* called; no authUrl is returned.
C17_StartUnknownProviderNotFound ==
    \A r \in Reqs :
        (startPc[r] \in {"AwaitStartLoad", "Answered"} /\ ~Registered(r)) =>
            /\ Answered(r)
            /\ startCalls[r] = << >>
            /\ startCfg[r] = NoClientCfg
            /\ Len(startResponses[r]) = 1
            /\ startResponses[r][1].status = 404
            /\ startResponses[r][1].authUrl = NoAuthUrl
            /\ startResponses[r][1].message # NoMessage

C17_Witness ==
    \E r \in Reqs :
        /\ Answered(r)
        /\ startReq[r].provider = "slack"
        /\ startReq[r].credentialId = "c1"
        /\ startResponses[r][1].status = 404
        /\ startResponses[r][1].message = ErrorMessage("OAuth provider not found: ", "slack")

\* Errors other than ProviderNotFound and MissingCredentials that the route
\* may catch.
OtherErrors ==
    { Thrown(FALSE, 0, m) :
        m \in { NoMessage,
                ErrorMessage("Cannot destructure property 'nodeData' of 'req.body'", ""),
                ErrorMessage("", "invalid_client"),
                ErrorMessage("", "redirect_uri_mismatch") } }
    \cup { Thrown(TRUE, 400, ErrorMessage("OAuth provider is required", "")) }

\* C18: the start route answers 2xx with an authUrl iff startOAuth
\* succeeded; every failure is answered non-2xx with a non-empty message and
\* no authUrl, and a MissingCredentials failure carries that error's message
\* unchanged.
C18_StartResponseReflectsOutcome ==
    /\ \A r \in Reqs :
        Answered(r) =>
            /\ Len(startResponses[r]) = 1
            /\ LET resp == startResponses[r][1]
               IN  /\ (resp.status \in 200..299) <=> StartSucceeded(r)
                   /\ (resp.authUrl # NoAuthUrl) <=> StartSucceeded(r)
                   /\ ~StartSucceeded(r) => resp.message # NoMessage
                   /\ (~StartSucceeded(r) /\ Registered(r)) =>
                        resp.message =
                            MissingCredentialsError(providers[startReq[r].provider]).message
    /\ \A e \in OtherErrors :
            /\ StartFailure(e).status \notin 200..299
            /\ StartFailure(e).message # NoMessage
            /\ StartFailure(e).authUrl = NoAuthUrl

C18_Witness ==
    \E r \in Reqs :
        /\ Answered(r)
        /\ startReq[r].provider = "gmail"
        /\ startCalls[r] = << StartOAuthCall, LoadCall("provider", "c2") >>
        /\ startResponses[r][1].status = 500
        /\ startResponses[r][1].message = MissingCredentialsError(gmailProvider).message

\* The correlation payloads: nodeId present or absent, credentialId an id or
\* "new", each providerKey, with and without a seed.
Payloads ==
    { StateObject(n, c, p, d) :
        n \in {Undefined, "n1"}, c \in {"new", "c1", "c2"},
        p \in {"gmail", "calendar", "slack"}, d \in {Undefined} \cup SeedNames }

\* C19: encoding a correlation state (JSON, then base64) and decoding it as
\* the callback does (base64, then JSON) gives back the same payload, for
\* every payload startOAuth builds and for every combination of nodeId,
\* credentialId, providerKey and optional seed.
C19_StateRoundTrip ==
    /\ \A r \in Reqs :
        StartSucceeded(r) =>
            DecodeState(startResponses[r][1].authUrl.state) = startData[r]
    /\ \A o \in Payloads : DecodeState(EncodeState(o)) = o

C19_Witness ==
    \E r \in Reqs :
        /\ StartSucceeded(r)
        /\ startData[r] = StateObject("n1", "new", "gmail", "seedBlank")
        /\ DecodeState(startResponses[r][1].authUrl.state) = startData[r]
        /\ startResponses[r][1].authUrl.state # << >>

\* C20: two startOAuth calls with identical inputs return two different
\* state values, and both decode to the same correlation state.
C20_FreshStatePerStart ==
    \A r1, r2 \in Reqs :
        (r1 # r2 /\ StartSucceeded(r1) /\ StartSucceeded(r2) /\ startReq[r1] = startReq[r2]) =>
            /\ startResponses[r1][1].authUrl.state # startResponses[r2][1].authUrl.state
            /\ DecodeState(startResponses[r1][1].authUrl.state)
                    = DecodeState(startResponses[r2][1].authUrl.state)

\* The accessToken, refreshToken and tokenExpiry of a record's data.
Triple(data) == << Get(data, "accessToken"), Get(data, "refreshToken"), Get(data, "tokenExpiry") >>

\* The triples of the exchanges, and those of the records the server starts with.
ExchangeTriples ==
    { << t.access_token, t.refresh_token, t.expiry_date >> : t \in TokenReplies }
        \cup { Triple(UnauthenticatedData), Triple(AuthenticatedData) }

\* In this step the update of request r returned without an error.
UpdateApplied(r) ==
    /\ pc[r] = "AwaitWrite"
    /\ pc'[r] = "ResponseRendered"
    /\ calls[r][Len(calls[r])].op = "updateCredential"
    /\ ~writeError'[r]

\* C21: two callbacks for the same existing record run concurrently, neither
\* waits for the other and neither is rejected (each renders the page of its
\* own outcome after its one update); a field of the record changes only in
\* the step in which an update carrying that field returns, and takes the
\* value that update carried, so the last update carrying a field decides
\* it; the record's accessToken, refreshToken and tokenExpiry are at all
\* times those of one exchange.
C21_ConcurrentCallbacksLastWriterWins ==
    /\ [](\A id \in DOMAIN store : Triple(store[id].data) \in ExchangeTriples)
    /\ [](\A r \in Reqs :
            (Rendered(r) /\ ExistingFlow(r) /\ result[r].returned) =>
                /\ Len(Writes(r)) = 1
                /\ responses[r] =
                        << PageAfterWrite(oauthProvider[r], result[r], writeError[r]) >>)
    /\ [][ /\ \A r \in Reqs :
                UpdateApplied(r) =>
                    LET call == calls[r][Len(calls[r])]
                    IN  \A k \in DOMAIN call.fields :
                            store'[call.id].data[k] = call.fields[k]
           /\ \A id \in DOMAIN store :
                \A k \in DOMAIN store'[id].data :
                    Get(store[id].data, k) # store'[id].data[k] =>
                        \E r \in Reqs :
                            /\ UpdateApplied(r)
                            /\ calls[r][Len(calls[r])].id = id
                            /\ k \in DOMAIN calls[r][Len(calls[r])].fields
      ]_vars

\* Both requests started from the same record and were at their update at
\* once; both rendered the success page; the record holds the tokens of the
\* exchange whose update returned last.
C21_Witness ==
    /\ \A r \in Reqs : Rendered(r) /\ result[r].authenticated /\ ~writeError[r]
    /\ pre["r1"].store = pre["r2"].store
    /\ Triple(pre["r1"].store["c1"].data) = << "at0", "rt0", "exp0" >>
    /\ tokens["r1"].access_token = "at1"
    /\ tokens["r2"].access_token = "at2"
    /\ \A r \in Reqs : responses[r] = << SuccessPage(gmailProvider) >>
    /\ Triple(store["c1"].data) = << "at2", Undefined, "exp2" >>

\* C22: no page of the callback route holds the text of an error thrown by
\* the provider's token endpoint or probe: the page of a run in which the
\* provider threw is determined by the descriptor and by whether the store
\* write failed, so two runs that differ only in the text thrown render the
\* same page.
C22_NoProviderErrorTextInPages ==
    \A r \in Reqs :
        /\ \A i \in DOMAIN responses[r] :
                /\ responses[r][i].msg \notin ProviderErrorTexts
                /\ responses[r][i].detail \notin ProviderErrorTexts
        /\ (Rendered(r) /\ providerError[r] # Undefined) =>
                responses[r] =
                    << IF writeError[r] THEN InnerErrorPage(StoreErrorMessage)
                       ELSE Page(400, "failure", "Error: ",
                                 FailureResult(oauthProvider[r]).error) >>

\* The token endpoint rejected the code of a callback on record c1 and the
\* page shows the descriptor's fixed message.
C22_Witness ==
    \E r \in Reqs :
        /\ Rendered(r)
        /\ providerError[r] = "invalid_grant: Bad Request"
        /\ stateData[r].credentialId = "c1"
        /\ tokens[r] = NoTokens
        /\ responses[r] = << Page(400, "failure", "Error: ",
                "Authentication failed: Unable to access Gmail with provided credentials") >>

\* The bytes of the JSON text a state string is the base64 of.
StateText(r) == FromBase64(startResponses[r][1].authUrl.state)

\* C23: the state of a successful start on an existing credential id embeds
\* no seed, whatever credentialData the request carried: the decoded state
\* has no credentialData member and no byte of the encoded text is one, so
\* no clientSecret is in it.
C23_SeedOnlyInNewState ==
    \A r \in Reqs :
        (StartSucceeded(r) /\ StartNodeData(startReq[r]).credential # "new") =>
            /\ DecodeState(startResponses[r][1].authUrl.state).credentialData = Undefined
            /\ startData[r].credentialData = Undefined
            /\ \A i \in DOMAIN StateText(r) :
                    TokenOf(StateText(r)[i]).f # "credentialData"

\* A start on record c1 that carried the seed seedA succeeded.
C23_Witness ==
    \E r \in Reqs :
        /\ StartSucceeded(r)
        /\ startReq[r].credentialId = "c1"
        /\ startReq[r].credentialData = "seedA"
        /\ startCfg[r].clientSecret = "secretA"
        /\ DecodeState(startResponses[r][1].authUrl.state) =
                StateObject(startReq[r].nodeId, "c1", startReq[r].provider, Undefined)

(***************************************************************************)
(* Properties of the registry and of the server's start.                   *)
(***************************************************************************)
\* C24: for every key registerProvider was called with a descriptor of,
\* getProvider of that key, at any later time, returns a descriptor whose
\* providerKey is the key asked for (the one registered last under it).
C24_LookupReturnsMatchingKey ==
    /\ \A key \in registered :
            /\ ~getProvider(providers, key).thrown
            /\ getProvider(providers, key).provider.providerKey = key
            /\ getProvider(providers, key).provider \in Descriptors
    /\ (lastOp.op = "getProvider" /\ lastOp.key \in registered) =>
            ~lastOp.thrown /\ lastOp.descriptor.providerKey = lastOp.key
    /\ lastOp.op = "registerProvider" =>
            getProvider(providers, lastOp.descriptor.providerKey).provider = lastOp.descriptor

\* getProvider("slack") returned the slack descriptor while two other keys
\* were registered.
C24_Witness ==
    /\ lastOp.op = "getProvider"
    /\ lastOp.key = "slack"
    /\ lastOp.descriptor = slackProvider
    /\ registered = {"gmail", "calendar", "slack"}

\* C25: getProvider of a key that was never registered throws NotFound and
\* returns no descriptor, whatever else is registered; hasProvider is false
\* for exactly the keys getProvider throws on.
C25_UnknownKeyNotFound ==
    /\ \A key \in RegistryKeys \ registered :
            /\ getProvider(providers, key).thrown
            /\ getProvider(providers, key).provider = NoProvider
    /\ \A key \in RegistryKeys :
            hasProvider(providers, key) = ~getProvider(providers, key).thrown
    /\ (lastOp.op = "getProvider" /\ lastOp.key \notin registered) =>
            lastOp.thrown /\ lastOp.descriptor = NoProvider
    /\ lastOp.op = "hasProvider" => (lastOp.has = (lastOp.key \in registered))

\* getProvider("unknown") threw on a registry that holds three descriptors.
C25_Witness ==
    /\ lastOp.op = "getProvider"
    /\ lastOp.key = "unknown"
    /\ lastOp.thrown
    /\ DOMAIN providers = {"gmail", "calendar", "slack"}

\* C26: registerProvider under a key already registered replaces the
\* descriptor and keeps one entry for the key: the number of keys is what it
\* was and getProvider returns the later descriptor; there is one descriptor
\* per key; registering a descriptor once more changes nothing.
C26_RegisterLastWriteWins ==
    /\ lastOp.op = "registerProvider" =>
            /\ getProvider(providers, lastOp.key).provider = lastOp.descriptor
            /\ lastOp.hadKey => Cardinality(DOMAIN providers) = lastOp.sizeBefore
            /\ ~lastOp.hadKey => Cardinality(DOMAIN providers) = lastOp.sizeBefore + 1
    /\ Cardinality(getAllProviders(providers)) = Cardinality(registered)
    /\ DOMAIN providers = registered
    /\ \A d \in Descriptors :
            registerProvider(registerProvider(providers, d), d) = registerProvider(providers, d)

\* The gmail descriptor was registered, then replaced by another one.
C26_Witness ==
    /\ lastOp.op = "registerProvider"
    /\ lastOp.hadKey
    /\ lastOp.descriptor = Revised(gmailProvider)
    /\ lastOp.sizeBefore = 2
    /\ providers["gmail"] = Revised(gmailProvider)
    /\ Cardinality(DOMAIN providers) = 2

\* The registry once registerOAuthProviders has returned.
BootRegistry ==
    [k \in {"gmail", "calendar"} |->
        IF k = "gmail" THEN gmailProvider ELSE googleCalendarProvider]

\* Registration is over.
Booted == bootPc \in {"MountRoutes", "Listening"}

\* C27: once registerOAuthProviders has returned, the registry holds the
\* gmail and calendar descriptors under their keys and no step of a start
\* request or of a callback, with the lookups they make, changes it.
C27_RegistryStableAfterBoot ==
    /\ [](Booted => providers = BootRegistry /\ registered = DOMAIN providers)
    /\ [][Booted => providers' = providers /\ registered' = registered]_vars

\* A callback created a record and a start request was answered; the
\* registry is what it was after the boot.
C27_Witness ==
    /\ bootPc = "Listening"
    /\ Len(created) = 1
    /\ \E r \in Reqs : Answered(r) /\ startResponses[r][1].status = 404
    /\ providers = BootRegistry

\* Request r is in the server.
InFlight(r) == pc[r] # "Idle" \/ startPc[r] # "Idle"

\* C28: every caller of getInstance is given the same, single instance, and
\* a start request or callback is in the server only once the module is
\* evaluated, when both providers are registered.
C28_SingletonRegisteredBeforeRequests ==
    /\ instances <= 1
    /\ \A h \in Holders : refs[h] \in {0, 1}
    /\ bootPc = "Listening" => \A h \in Holders : refs[h] = 1
    /\ \A r \in Reqs :
            InFlight(r) =>
                /\ bootPc = "Listening"
                /\ hasProvider(providers, "gmail") /\ hasProvider(providers, "calendar")
                /\ getProvider(providers, "gmail").provider = gmailProvider
                /\ getProvider(providers, "calendar").provider = googleCalendarProvider

\* A callback awaits the token endpoint with the calendar descriptor it
\* looked up, and the three callers hold the one instance.
C28_Witness ==
    /\ \A h \in Holders : refs[h] = 1
    /\ instances = 1
    /\ \E r \in Reqs : pc[r] = "AwaitToken" /\ oauthProvider[r] = googleCalendarProvider

\* The callback the identity provider redirects to after the start of r:
\* the handler from its entry to its first await.
MatchingCallback(r) ==
    CallbackPrefix([code |-> "code1",
                    state |-> [given |-> TRUE, s |-> startResponses[r][1].authUrl.state]],
                   startReq[r].provider, providers)

\* C29: the state of a successful start with credentialId absent or "new"
\* embeds a seed, the seed has the clientId, clientSecret and redirectUri the
\* authorization URL was built with, and the matching callback goes on to
\* the token exchange instead of failing for a missing seed; also when the
\* values came from nodeData.inputs.
C29_NewStateEmbedsUsedSeed ==
    \A r \in Reqs :
        (StartSucceeded(r) /\ StartNodeData(startReq[r]).credential = "new") =>
            LET d == DecodeState(startResponses[r][1].authUrl.state)
            IN  /\ d.credentialData # Undefined
                /\ SeedFields(d.credentialData) = startCfg[r]
                /\ MatchingCallback(r).page # InnerErrorPage(MissingSeedMessage)
                /\ MatchingCallback(r).exit = "exchange"

\* The sources of a client value, in the order of getCredentialParam: the
\* request's credentialData, nodeData.inputs, the stored credential.
Sources(r) ==
    << IF Falsy(startReq[r].credentialData) THEN EmptyObj
       ELSE SeedFields(startReq[r].credentialData),
       startReq[r].inputs,
       startCred[r] >>

\* The sources that have a non-empty value for field k.
Having(r, k) == { i \in 1..3 : Get(Sources(r)[i], k) \notin {Undefined, ""} }

\* C30: startOAuth takes each of clientId, clientSecret and redirectUri
\* from the first source, in the order options.credentialData,
\* nodeData.inputs, stored credential, that has a non-empty value for it,
\* whatever the other fields are taken from; a field no source has is ''.
C30_FirstNonEmptySourcePerField ==
    \A r \in Reqs :
        (Answered(r) /\ Registered(r)) =>
            \A k \in ClientFields :
                IF Having(r, k) = {}
                THEN startCfg[r][k] = ""
                ELSE \E i \in Having(r, k) :
                        /\ \A j \in Having(r, k) : i <= j
                        /\ startCfg[r][k] = Sources(r)[i][k]

\* One start took clientId from credentialData, clientSecret from
\* nodeData.inputs and redirectUri from the stored credential.
C30_Witness ==
    \E r \in Reqs :
        /\ Answered(r)
        /\ startReq[r].credentialData = "seedPartial"
        /\ startReq[r].inputs = PartialInputs
        /\ startCred[r].clientId = "idC"
        /\ startCfg[r] = ClientCfg("idP", "secretN", "uriC")
        /\ startResponses[r][1].status = 200

(***************************************************************************)
(* Properties of handleOAuthCallback and of the handler's awaits.          *)
(***************************************************************************)
\* The calls of request r to the token endpoint, and to the probe.
Exchanges(r) == SelectSeq(calls[r], LAMBDA c : c.op = "getToken")
Probes(r) == SelectSeq(calls[r], LAMBDA c : c.op = "probe")

\* handleOAuthCallback of request r has resolved its client values.
ClientResolved(r) == clientCfg[r] # NoClientCfg

\* The exchange of request r returned tokens.
ExchangeSucceeded(r) == tokens[r] # NoTokens

\* C31: a handleOAuthCallback that has resolved its client values has made
\* one code-for-token exchange; it has made one probe call when the exchange
\* returned tokens and none otherwise, the probe after the exchange; it
\* returns authenticated = true only when neither threw; there is never a
\* second exchange or probe.
C31_OneExchangeThenOneProbe ==
    \A r \in Reqs :
        /\ Len(Exchanges(r)) <= 1
        /\ Len(Probes(r)) <= 1
        /\ ClientResolved(r) <=> Len(Exchanges(r)) = 1
        /\ ExchangeSucceeded(r) <=> Len(Probes(r)) = 1
        /\ Len(Probes(r)) = 1 =>
                \E i, j \in DOMAIN calls[r] :
                    i < j /\ calls[r][i].op = "getToken" /\ calls[r][j].op = "probe"
        /\ result[r].authenticated =>
                /\ Len(Exchanges(r)) = 1
                /\ Len(Probes(r)) = 1
                /\ ExchangeSucceeded(r)
                /\ providerError[r] = Undefined
        /\ (result[r].returned /\ providerError[r] # Undefined) => ~result[r].authenticated

\* The exchange of a callback on record c1 returned tokens, the probe threw,
\* and the result is not authenticated.
C31_Witness ==
    \E r \in Reqs :
        /\ Rendered(r)
        /\ stateData[r].credentialId = "c1"
        /\ ExchangeSucceeded(r)
        /\ providerError[r] # Undefined
        /\ Len(Exchanges(r)) = 1 /\ Len(Probes(r)) = 1
        /\ ~result[r].authenticated

\* C32: when the token exchange or the probe throws, handleOAuthCallback
\* returns a TokenResult with authenticated = false, a non-empty error and
\* no tokens, and the handler goes on to TokenExchanged: it renders the
\* authentication failure page, or the error page of a failed store write.
C32_ProviderFailureIsReturned ==
    \A r \in Reqs :
        providerError[r] # Undefined =>
            /\ result[r].returned
            /\ ~result[r].authenticated
            /\ result[r].error \notin {Undefined, ""}
            /\ result[r].accessToken = Undefined
            /\ result[r].refreshToken = Undefined
            /\ result[r].tokenExpiry = Undefined
            /\ \E i \in DOMAIN stages[r] : stages[r][i] = "TokenExchanged"
            /\ (Rendered(r) /\ ~writeError[r]) =>
                    /\ Len(responses[r]) = 1
                    /\ responses[r][1].status = 400
                    /\ responses[r][1].detail = result[r].error

\* The token endpoint rejected the code of a callback for a new credential:
\* the handler reached TokenExchanged and rendered the failure page.
C32_Witness ==
    \E r \in Reqs :
        /\ Rendered(r)
        /\ stateData[r].credentialId = "new"
        /\ providerError[r] = "invalid_grant: Bad Request"
        /\ ~ExchangeSucceeded(r)
        /\ result[r].returned /\ ~result[r].authenticated
        /\ responses[r][1].status = 400

\* The handler of request r awaits a call.
Awaiting(r) ==
    pc[r] \in {"AwaitLoad", "AwaitProviderLoad", "AwaitToken", "AwaitProbe", "AwaitWrite"}

\* C33: the response of a callback is sent when no outbound call of the
\* request is in flight: the handler has at most one call in flight, the one
\* it awaits, and sends nothing before that call has returned or thrown.
C33_NoCallInFlightAtResponse ==
    \A r \in Reqs :
        /\ Rendered(r) => pending[r] = {}
        /\ pending[r] # {} => responses[r] = << >>
        /\ Awaiting(r) => pending[r] = {Len(calls[r])}
        /\ ~Awaiting(r) => pending[r] = {}

\* A response was sent after the exchange, the probe and the store update
\* of the request, none of which is in flight.
C33_Witness ==
    \E r \in Reqs :
        /\ Rendered(r)
        /\ Len(Exchanges(r)) = 1 /\ Len(Probes(r)) = 1 /\ Len(Writes(r)) = 1
        /\ Len(calls[r]) = 5
        /\ pending[r] = {}
        /\ Len(responses[r]) = 1

\* How many times request r reached CredentialReconciled.
Reconciliations(r) == Len(SelectSeq(stages[r], LAMBDA st : st = "CredentialReconciled"))

\* C35: a callback whose browser has disconnected is not cancelled: its
\* handler can take its next step whenever the call it awaits can return,
\* and when it has its TokenResult it has made one exchange and reconciled
\* the credential once, with the one store write its outcome calls for.
C35_DisconnectDoesNotCancel ==
    \A r \in Reqs :
        ~connected[r] =>
            /\ (pc[r] = "AwaitingParameters" \/ (Awaiting(r) /\ ~hung[r])) =>
                    ENABLED HandlerStep(r)
            /\ (Rendered(r) /\ result[r].returned) =>
                    /\ Len(Exchanges(r)) = 1
                    /\ Reconciliations(r) = 1
                    /\ Len(Writes(r)) <= 1
                    /\ (ExistingFlow(r) \/ result[r].authenticated) => Len(Writes(r)) = 1

\* The browser left while the token exchange was in flight; the exchange
\* and the probe completed and the record was updated once.
C35_Witness ==
    \E r \in Reqs :
        /\ Rendered(r)
        /\ ~connected[r]
        /\ result[r].authenticated
        /\ stateData[r].credentialId = "c1"
        /\ Len(Writes(r)) = 1
        /\ ~writeError[r]
        /\ store["c1"].data["accessToken"] = tokens[r].access_token

\* Request r2 arrived when the callback r1, which carries the same state,
\* had been processed: it found the record as the update of r1 left it.
ArrivedAfter(r2, r1) ==
    /\ r1 # r2
    /\ Rendered(r1)
    /\ pc[r2] # "Idle"
    /\ query[r2].state = query[r1].state
    /\ Len(Exchanges(r1)) = 1
    /\ Len(Writes(r1)) = 1
    /\ ~writeError[r1]
    /\ pre[r2].store # pre[r1].store
    /\ pre[r2].store =
            StoreUpdate(pre[r1].store, Writes(r1)[1].id, Writes(r1)[1].fields)

\* C34: a callback that carries the state of a callback already processed
\* makes no token exchange and no credential-store write.
C34_StateConsumedOnce ==
    \A r1, r2 \in Reqs :
        ArrivedAfter(r2, r1) =>
            /\ Len(Exchanges(r2)) = 0
            /\ Len(Writes(r2)) = 0

\* C36: the array getAllProviders returned keeps the descriptors it was
\* returned with when providers are registered later, and emptying it
\* leaves the registry as it is: the registry's entries change only in a
\* call of registerProvider, and getProvider, hasProvider and a later
\* getAllProviders answer from all the keys registered.
C36_GetAllProvidersIsSnapshot ==
    /\ [](held.taken => Items(held, providers) = held.seen)
    /\ [](/\ DOMAIN providers = registered
          /\ \A key \in registered :
                /\ hasProvider(providers, key)
                /\ ~getProvider(providers, key).thrown
          /\ Cardinality(Items(ArrayFrom(providers), providers)) = Cardinality(registered))
    /\ [][providers' # providers =>
                /\ lastOp'.op = "registerProvider"
                /\ providers' = registerProvider(providers, lastOp'.descriptor)
                /\ held' = held]_vars

\* An array taken when only gmail was registered still holds that one
\* descriptor after calendar was registered; another was emptied and the
\* registry still has its two descriptors.
C36_Witness ==
    /\ held.taken
    /\ held.seen = {}
    /\ lastOp.op = "getAllProviders"
    /\ lastOp.all = {gmailProvider, googleCalendarProvider}
    /\ DOMAIN providers = {"gmail", "calendar"}

\* The request r is given the return of the store write it awaits.
WriteSettles(r) == pc[r] = "AwaitWrite" /\ pc'[r] = "ResponseRendered"

\* C37: a callback makes at most one store write, an update of the record
\* named by its state's credentialId or the creation of one record when that
\* is "new"; a stored record changes only when the write of a request for
\* its id returns, and the records created earlier stay as they are, so a
\* callback leaves the records of the other ids alone.
C37_OneWriteToOwnRecordOnly ==
    /\ [](\A r \in Reqs :
            /\ Len(Writes(r)) <= 1
            /\ \A i \in 1..Len(Writes(r)) :
                  LET w == Writes(r)[i]
                  IN  IF stateData[r].credentialId = "new"
                        THEN w.op = "createCredential"
                        ELSE w.op = "updateCredential" /\ w.id = stateData[r].credentialId)
    /\ [][/\ DOMAIN store' = DOMAIN store
          /\ \A id \in DOMAIN store :
                store'[id] # store[id] =>
                    \E r \in Reqs :
                        /\ WriteSettles(r)
                        /\ stateData[r].credentialId = id
                        /\ \A other \in DOMAIN store \ {id} : store'[other] = store[other]
                        /\ created' = created
          /\ Len(created') >= Len(created)
          /\ SubSeq(created', 1, Len(created)) = created
          /\ created' # created =>
                /\ Len(created') = Len(created) + 1
                /\ store' = store
                /\ \E r \in Reqs : WriteSettles(r) /\ stateData[r].credentialId = "new"]_vars

\* The callbacks for c1 and for c2 were handled at the same time and both
\* have written: c1 is authenticated with the new tokens, c2 was marked
\* notAuthenticated and keeps the tokens it had.
C37_Witness ==
    /\ stateData["r1"].credentialId = "c1"
    /\ stateData["r2"].credentialId = "c2"
    /\ pc["r1"] = "ResponseRendered"
    /\ pc["r2"] = "ResponseRendered"
    /\ pre["r2"].store = pre["r1"].store
    /\ pre["r1"].store["c2"].data = AuthenticatedData
    /\ Len(Writes("r1")) = 1
    /\ Len(Writes("r2")) = 1
    /\ store["c1"].data.authStatus = "authenticated"
    /\ Get(store["c1"].data, "accessToken") = "at1"
    /\ store["c2"].data.authStatus = "notAuthenticated"
    /\ Get(store["c2"].data, "accessToken") = "at0"

\* The places in calls[r] of the store writes that carry authStatus =
\* "authenticated".
AuthenticatedWrites(r) ==
    { i \in 1..Len(calls[r]) :
        /\ calls[r][i].op \in {"createCredential", "updateCredential"}
        /\ Get(calls[r][i].fields, "authStatus") = "authenticated" }

\* The fields carry the tokens t.
CarriesTokens(fields, t) ==
    /\ Get(fields, "accessToken") = t.access_token
    /\ Get(fields, "refreshToken") = t.refresh_token
    /\ Get(fields, "tokenExpiry") = t.expiry_date

\* C38: a create or update of the handler that carries authStatus =
\* "authenticated" is issued after the request's own exchange returned tokens
\* and its own probe returned without an error, and carries those tokens;
\* whatever the interleaving of two requests, a stored or created record
\* becomes "authenticated" only by such a write.
C38_AuthenticatedOnlyAfterProbe ==
    /\ [](\A r \in Reqs :
            \A i \in AuthenticatedWrites(r) :
                /\ ExchangeSucceeded(r)
                /\ providerError[r] = Undefined
                /\ result[r] = SuccessResult(tokens[r])
                /\ \E j \in 1..(i - 1) :
                      /\ calls[r][j] = ProbeCall
                      /\ j \notin pending[r]
                      /\ \E k \in 1..(j - 1) : calls[r][k] = GetTokenCall
                /\ CarriesTokens(calls[r][i].fields, tokens[r]))
    /\ [][/\ \A id \in DOMAIN store :
                (store'[id] # store[id] /\ store'[id].data.authStatus = "authenticated") =>
                    \E r \in Reqs :
                        /\ WriteSettles(r)
                        /\ Len(calls[r]) \in AuthenticatedWrites(r)
                        /\ CarriesTokens(store'[id].data, tokens[r])
          /\ created' # created =>
                \E r \in Reqs :
                    /\ WriteSettles(r)
                    /\ Len(calls[r]) \in AuthenticatedWrites(r)
                    /\ CarriesTokens(created'[Len(created')].data, tokens[r])]_vars

\* While one callback's exchange failed and marked c2 notAuthenticated,
\* the other's exchange and probe succeeded and c1 was written as
\* authenticated with the tokens of that exchange.
C38_Witness ==
    /\ pc["r1"] = "ResponseRendered"
    /\ pc["r2"] = "ResponseRendered"
    /\ AuthenticatedWrites("r1") = {Len(calls["r1"])}
    /\ stateData["r1"].credentialId = "c1"
    /\ stateData["r2"].credentialId = "c2"
    /\ providerError["r2"] # Undefined
    /\ Len(Probes("r2")) = 1
    /\ pre["r1"].store["c1"].data = UnauthenticatedData
    /\ store["c1"].data.authStatus = "authenticated"
    /\ CarriesTokens(store["c1"].data, tokens["r1"])
    /\ store["c2"].data.authStatus = "notAuthenticated"

\* The data of the records the store holds.
Records == { store[id].data : id \in DOMAIN store } \cup { created[i].data : i \in 1..Len(created) }

\* C39: every record marked authStatus = "authenticated" holds a non-empty
\* accessToken and a non-empty refreshToken, so the tool node's init check
\* takes it as authenticated.
C39_AuthenticatedRecordHoldsBothTokens ==
    \A data \in Records :
        Get(data, "authStatus") = "authenticated" =>
            /\ ~Falsy(Get(data, "accessToken"))
            /\ ~Falsy(Get(data, "refreshToken"))
            /\ isAuthenticated(data)

====
